---- MODULE Spec2Model ----
(***************************************************************************)
(* A model of the incremental synchronisation engine of waka-readme-stats: *)
(*   - sources/manager_download.py: DownloadManager.fetch_graphql_query,   *)
(*     find_pagination_and_data_list and fetch_graphql_paginated;          *)
(*   - sources/yearly_commit_calculator.py: calculate_commit_data,         *)
(*     fetch_and_process_repos, load_cached_repo_data,                     *)
(*     update_data_with_commit_stats_and_cache and the cache, index and    *)
(*     checkpoint files.                                                   *)
(* SpecPage is one call of fetch_graphql_paginated against a server;       *)
(* Spec is a sequence of runs of calculate_commit_data on one disk;        *)
(* SpecCrash is Spec with the process ending between file operations;      *)
(* SpecDM is the get_remote_graphql calls of repository tasks that run one *)
(* after another, each call a memo lookup or a fetch_graphql_paginated;    *)
(* SpecCM is a CacheManager (sources/manager_cache.py) and its file;       *)
(* SpecErr is Spec with query replies that carry GraphQL errors;           *)
(* SpecQuery is one fetch_graphql_query call with any retry budget;        *)
(* SpecOverlap is get_remote_graphql called by tasks that run side by      *)
(* side; SpecRate is SpecPage with rate-limit errors only; SpecPageLive is *)
(* SpecPage under weak fairness; SpecLegacy runs the legacy and the        *)
(* caching update function on one repository.                              *)
(***************************************************************************)
EXTENDS Integers, Sequences, FiniteSets, TLC

VARIABLES
    \* ---- one call of fetch_graphql_paginated ----
    server,          \* the pages the remote endpoint holds for the query
    errBudget,       \* how many more runs of faulty responses the endpoint gives
    pg_pc,           \* "idle" | "first" | "next" | "returned" | "raised"
    page_list,       \* the nodes accumulated so far
    page_info,       \* pageInfo of the last page parsed
    pagination,      \* the cursor of the request being made (NoCursor: none)
    attempt,         \* attempt / pagination_attempt of the current page
    retries_count,   \* retries_count of the current fetch_graphql_query call
    requests,        \* the cursors of the queries posted, in order
    sawError,        \* some response so far was not a clean HTTP 200
    response,        \* the HTTP response received last
    wait_time,       \* what wait_for_rate_limit_reset returned for the last
                     \* response, 0 when it was not called
    slept,           \* the seconds slept after the last response
    call_requests,   \* the requests of the current fetch_graphql_query call
    page_calls       \* the fetch_graphql_query calls made for the current page

pageVars == <<server, errBudget, pg_pc, page_list, page_info, pagination,
              attempt, retries_count, requests, sawError, response, wait_time,
              slept, call_requests, page_calls>>

VARIABLES
    \* ---- the environment of calculate_commit_data ----
    repositories,    \* the input: a sequence of repository ids
    env,             \* IGNORED_REPOS, INPUT_MAX_CONCURRENCY, cpu_count()
    now,             \* datetime.now(), in seconds
    runs,            \* how many runs of calculate_commit_data have begun
    \* ---- the files under .repo_cache ----
    cache_files,     \* cache path -> the JSON text of a CacheRecord
    index_file,      \* index.json: NoFile, or File(repo name -> timestamp)
    checkpoint_file, \* checkpoint.json: NoFile, or File(checkpoint)
    written_by,      \* cache path -> the repository whose fetch wrote it last
    \* ---- one run of calculate_commit_data ----
    phase,           \* "idle" | "fetching" | "returned" | "raised"
    use_cache,       \* INPUT_USE_CACHE of this run
    yearly_data,
    date_data,
    cache_index,     \* the index dictionary the run's tasks update
    processed_repos, \* the list the run's tasks append to
    repos_to_fetch,
    repos_to_load,
    task,            \* repository id -> its process_one task
    sem,             \* the semaphore's free slots
    loaded_index,    \* what get_cache_index() returned at the run's start
    loaded_checkpoint, \* processed_repos as get_checkpoint() returned it
    net_requests,    \* the repositories a network request was issued for
    cache_reads,     \* the repository names whose CacheRecord the run read
    disk_before,     \* the files as they were when the run began
    failed_before    \* the repositories whose fetch raised in the run before

envVars == <<repositories, env, now, runs>>
diskVars == <<cache_files, index_file, checkpoint_file, written_by>>
runVars == <<phase, use_cache, yearly_data, date_data, cache_index,
             processed_repos, repos_to_fetch, repos_to_load, task, sem,
             loaded_index, loaded_checkpoint, net_requests, cache_reads,
             disk_before, failed_before>>
syncVars == <<envVars, diskVars, runVars>>

VARIABLES
    \* ---- the get_remote_graphql calls of the repository tasks ----
    REMOTE_RESOURCES_CACHE, \* DownloadManager._REMOTE_RESOURCES_CACHE
    dm_tasks,        \* how many repository tasks have begun
    dm_repo,         \* the repository of the task that runs
    dm_pc,           \* "idle" | "call" | "fetch" | "done" | "raised"
    dm_key,          \* the key of the get_remote_graphql call being made
    dm_branch_data,  \* what the task's repo_branch_list call returned
    dm_bi,           \* the index of the branch whose commits are queried
    dm_posts,        \* the POSTs of the call being made
    returned_calls   \* the get_remote_graphql calls that returned, in order

dmVars == <<REMOTE_RESOURCES_CACHE, dm_tasks, dm_repo, dm_pc, dm_key,
            dm_branch_data, dm_bi, dm_posts, returned_calls>>

VARIABLES
    \* ---- a CacheManager and its cache file ----
    cm_file,         \* .cache/<user>_repo_cache.json: NoFile, File(..), Torn
    cm_clock,        \* time.time(), in seconds
    cm_updates,      \* repository name -> its latest update_cache call
    cm_call          \* the CacheManager call made last and its outcome

cmVars == <<cm_file, cm_clock, cm_updates, cm_call>>

VARIABLES
    \* ---- responses that carry GraphQL errors ----
    error_replies    \* the repositories a query of whose task in this run
                     \* was answered with errors that are not rate limits

errVars == <<error_replies>>

VARIABLES
    \* ---- one call of fetch_graphql_query ----
    backoff_waits    \* the exponential backoff waits of the call so far

queryVars == <<backoff_waits>>

VARIABLES
    \* ---- get_remote_graphql calls of tasks that run side by side ----
    ov_call,         \* caller -> the get_remote_graphql call it made last
    ov_calls         \* how many calls have been made

ovVars == <<ov_call, ov_calls>>

VARIABLES
    \* ---- one repository given to both update functions ----
    lg_repo,         \* repo_details
    lg_branches,     \* what repo_branch_list returns for it
    lg_commits,      \* branch name -> what repo_commit_list returns for it
    lg_legacy,       \* <<yearly_data, date_data>> of the legacy function,
                     \* NotRun before it ran
    lg_new           \* <<yearly_data, date_data>> of the caching function,
                     \* NotRun before it ran

lgVars == <<lg_repo, lg_branches, lg_commits, lg_legacy, lg_new>>

extVars == <<cmVars, errVars, queryVars, ovVars, lgVars>>

\* ------------------------------------------------------------------ bounds
MaxPages == 3
MaxNodes == 2
MaxErrors == 2

\* ------------------------------------------------------- program constants
DefaultRetriesCount == 10
BackoffExponentBase == 10
MaxRetries == 20
PaginationMaxRetries == 20
FallbackWait == 60
MaxBackoff == 300

NoCursor == 0

\* ------------------------------------------------------------ JSON values
JDict(f) == [kind |-> "dict", val |-> f]
JList(s) == [kind |-> "list", val |-> s]
JStr(s) == [kind |-> "str", val |-> s]
EmptyMap == [x \in {} |-> 0]

Max(a, b) == IF a >= b THEN a ELSE b
Min(a, b) == IF a <= b THEN a ELSE b

\* Page k of the server: its nodes, whether a page follows, and its cursor.
ServerPages(n, size) ==
    [k \in 1..n |->
        [nodes |-> [i \in 1..size[k] |-> <<k, i>>],
         hasNextPage |-> k < n,
         endCursor |-> k]]

\* The page a request with the given pagination fragment is answered with:
\* "first: 100" is the first page, 'first: 100, after: "c"' the page after c.
ServedPage(srv, cursor) == srv[cursor + 1]

\* A clean response body: {"data": {"repository": {"refs": {nodes, pageInfo}}}}
PageBody(p) ==
    [data |-> JDict([repository |-> JDict([refs |-> JDict(
        [nodes |-> JList(p.nodes),
         pageInfo |-> JDict([hasNextPage |-> p.hasNextPage,
                             endCursor |-> p.endCursor])])])])]

\* Bodies of HTTP 200 responses that hold no {nodes, pageInfo} pair where the
\* parser looks: {"key": "value"}, {}, a two-key dictionary on the way down,
\* nodes without pageInfo, a list under the single key, and the pair beside a
\* second top-level key.
MalformedBodies ==
    {[key |-> JStr("value")],
     EmptyMap,
     [data |-> JDict([a |-> JStr("x"), b |-> JStr("y")])],
     [data |-> JDict([repository |-> JDict([refs |-> JDict(
         [nodes |-> JList(<<<<9, 9>>>>)])])])],
     [data |-> JList(<<<<9, 9>>>>)],
     [data |-> JDict([nodes |-> JList(<<<<9, 9>>>>),
                      pageInfo |-> JDict([hasNextPage |-> TRUE,
                                          endCursor |-> 1])]),
      extensions |-> JDict(EmptyMap)]}

\* ------------------------------------------------------- GraphQL errors
\* extensions.rateLimit.resetAt of an error: absent, an ISO-8601 text in UTC
\* with the 'Z' suffix, an ISO-8601 text without offset, or no ISO text; "in"
\* is the number of seconds from the moment of the response to that time.
NoResetAt == [kind |-> "absent", in |-> 0]
ResetAtUtc(d) == [kind |-> "utc", in |-> d]
ResetAtNaive(d) == [kind |-> "naive", in |-> d]
ResetAtInvalid == [kind |-> "invalid", in |-> 0]

\* An element of errors[]; the message is its sequence of words.
GraphqlError(type, message, resetAt) ==
    [type |-> type, message |-> message, resetAt |-> resetAt]

RateLimitError ==
    GraphqlError("RATE_LIMIT", <<"API", "rate", "limit", "exceeded">>,
                 NoResetAt)
OtherError ==
    GraphqlError("NOT_FOUND", <<"Could", "not", "resolve">>, NoResetAt)
RateLimitByMessage ==
    GraphqlError("FORBIDDEN", <<"API", "Rate", "Limit", "exceeded">>,
                 NoResetAt)
RateLimitResetUtc ==
    GraphqlError("RATE_LIMIT", <<"Please", "wait">>, ResetAtUtc(30))
RateLimitResetNaive ==
    GraphqlError("RATE_LIMIT", <<"Please", "wait">>, ResetAtNaive(30))
RateLimitResetPast ==
    GraphqlError("RATE_LIMIT", <<"Please", "wait">>, ResetAtNaive(-5))
RateLimitTryAgain ==
    GraphqlError("RATE_LIMIT",
                 <<"rate", "limit", "try", "again", "in", "51", "seconds">>,
                 ResetAtInvalid)

\* The errors[] lists the endpoint answers with.
ErrorLists ==
    {<<RateLimitError>>, <<OtherError>>, <<OtherError, OtherError>>,
     <<OtherError, RateLimitByMessage>>, <<RateLimitResetUtc>>,
     <<RateLimitResetNaive>>, <<RateLimitResetPast>>, <<RateLimitTryAgain>>}

\* str.lower() of a word
Lower(w) ==
    CASE w \in {"Rate", "RATE"} -> "rate"
      [] w \in {"Limit", "LIMIT"} -> "limit"
      [] w \in {"API"} -> "api"
      [] w \in {"Please"} -> "please"
      [] w \in {"Could"} -> "could"
      [] OTHER -> w

\* int() of the digits a \d+ group matched; 0 for a word that is not digits
DigitsValue(w) == CASE w = "51" -> 51 [] w = "120" -> 120 [] OTHER -> 0

\* A test that looks at the type of the error only.
is_rate_limit_type(error) == error.type = "RATE_LIMIT"

\* error.get("type") == "RATE_LIMIT" or "rate limit" in message.lower()
IsRateLimitError(error) ==
    \/ error.type = "RATE_LIMIT"
    \/ \E k \in 1..(Len(error.message) - 1) :
          /\ Lower(error.message[k]) = "rate"
          /\ Lower(error.message[k + 1]) = "limit"

\* The first rate-limit error of errors[] (the for loop of lines 339-357 stops
\* at it), 0 when there is none.
first_rate_limit(errors) ==
    IF \E k \in DOMAIN errors : IsRateLimitError(errors[k])
    THEN CHOOSE k \in DOMAIN errors :
             /\ IsRateLimitError(errors[k])
             /\ \A j \in 1..(k - 1) : ~IsRateLimitError(errors[j])
    ELSE 0

\* regex_search(r"try again in (\d+) seconds", message): the number, 0 when
\* the pattern does not match
try_again_seconds(message) ==
    IF \E k \in 1..(Len(message) - 4) :
           /\ message[k] = "try" /\ message[k + 1] = "again"
           /\ message[k + 2] = "in" /\ DigitsValue(message[k + 3]) > 0
           /\ message[k + 4] = "seconds"
    THEN LET k == CHOOSE k \in 1..(Len(message) - 4) :
                      /\ message[k] = "try" /\ message[k + 1] = "again"
                      /\ message[k + 2] = "in"
                      /\ DigitsValue(message[k + 3]) > 0
                      /\ message[k + 4] = "seconds"
         IN DigitsValue(message[k + 3])
    ELSE 0

\* lines 304-312: datetime.fromisoformat(reset_at.replace("Z", "+00:00")) gives
\* an aware datetime for a text with 'Z', a naive one for a text without
\* offset and raises ValueError otherwise; subtracting the naive
\* datetime.now() from an aware datetime raises TypeError. Both exceptions
\* are caught and the next source is tried. The result is the wait, 0 when
\* resetAt gave none.
reset_at_wait(reset_at) ==
    IF reset_at.kind = "absent" THEN 0
    ELSE IF reset_at.kind = "invalid" THEN 0
    ELSE IF reset_at.kind = "utc" THEN 0
    ELSE Max(reset_at.in, 1)

\* lines 296-327: the seconds wait_for_rate_limit_reset sleeps and returns
wait_for_rate_limit_reset(error) ==
    IF reset_at_wait(error.resetAt) > 0 THEN reset_at_wait(error.resetAt)
    ELSE IF try_again_seconds(error.message) > 0
         THEN try_again_seconds(error.message)
         ELSE FallbackWait

\* lines 350 and 398
backoff_wait(wait, attempts) == Min(wait * attempts, MaxBackoff)

\* A 200 body with errors[]: {"data": null, "errors": [...]}
ErrorBody(errors) == [data |-> JStr("null"), errors |-> JList(errors)]

\* A paginator that keeps the pageInfo it had when the response has none.
keeps_page_info(response_dict) == <<(<<>>), page_info>>

\* line 281
not_paginated(response_dict) == <<(<<>>), [hasNextPage |-> FALSE]>>

RECURSIVE find_pagination_and_data_list(_)
find_pagination_and_data_list(response_dict) ==
    IF "nodes" \in DOMAIN response_dict /\ "pageInfo" \in DOMAIN response_dict
    THEN <<response_dict["nodes"].val, response_dict["pageInfo"].val>>
    ELSE IF /\ Cardinality(DOMAIN response_dict) = 1
            /\ (response_dict[CHOOSE k \in DOMAIN response_dict : TRUE]).kind
                   = "dict"
         THEN find_pagination_and_data_list(
                  (response_dict[CHOOSE k \in DOMAIN response_dict : TRUE]).val)
         ELSE not_paginated(response_dict)

\* ----------------------------------------------------- the HTTP responses
NoHeader == [present |-> FALSE, in |-> 0]
ResetHeader(d) == [present |-> TRUE, in |-> d]
\* x-ratelimit-reset of a 403: absent, or 7 s ahead
ResetHeaders == {NoHeader, ResetHeader(7)}
FatalStatuses == {401, 500}

Response(status, kind, errors, header, returned) ==
    [status |-> status, kind |-> kind, errors |-> errors, header |-> header,
     returned |-> returned]
NoResponse == Response(0, "none", <<>>, NoHeader, TRUE)

\* ------------------------------------------------- fetch_graphql_paginated
\* The servers of a call: 1..MaxPages pages of MaxNodes nodes each, of which
\* at most one page (page e) is empty.
InitPaginated ==
    /\ \E n \in 1..MaxPages : \E e \in 0..n :
           server = ServerPages(n, [k \in 1..n |->
                                       IF k = e THEN 0 ELSE MaxNodes])
    /\ errBudget \in 0..MaxErrors
    /\ pg_pc = "first"
    /\ page_list = <<>>
    /\ page_info = [hasNextPage |-> FALSE]
    /\ pagination = NoCursor
    /\ attempt = 0
    /\ retries_count = DefaultRetriesCount
    /\ requests = <<>>
    /\ sawError = FALSE
    /\ response = NoResponse
    /\ wait_time = 0
    /\ slept = 0
    /\ call_requests = 0
    /\ page_calls = 0

Requesting == pg_pc \in {"first", "next"}

\* The endpoint gives a response of this kind: a clean page costs nothing, a
\* faulty response that repeats the kind of the one before it (the same
\* request answered the same way again) costs nothing more, any other faulty
\* response takes one unit of the budget.
Answers(kind) ==
    IF kind = "page" \/ (kind \in {"rate_limit", "retryable"}
                         /\ response.kind = kind)
    THEN UNCHANGED errBudget
    ELSE errBudget > 0 /\ errBudget' = errBudget - 1

\* lines 232-236: one POST. It continues the fetch_graphql_query call whose
\* last response was retried (403, 502), or is the first of a new call; a new
\* call after a response that was returned to the paginator is the first call
\* for its page, and its query is a new one. The POSTs that repeat a query
\* are counted in call_requests and page_calls.
Post ==
    /\ Requesting
    /\ requests' = IF response.returned THEN Append(requests, pagination)
                   ELSE requests
    /\ call_requests' = IF response.kind = "retryable" THEN call_requests + 1
                        ELSE 1
    /\ page_calls' = IF response.kind = "retryable" THEN page_calls
                     ELSE IF response.returned THEN 1
                     ELSE page_calls + 1

\* A paginator that keeps only the page it parsed last.
page_list_overwritten(new_page_list) == new_page_list

\* What the code does with a response that is returned to the paginator
\* (lines 368-371 for the first page, 415-417 for a following one).
page_list_after(new_page_list) ==
    IF pg_pc = "first" THEN new_page_list ELSE page_list \o new_page_list

AcceptResponse(body) ==
    LET found == find_pagination_and_data_list(body)
        new_page_list == found[1]
        info == found[2]
    IN /\ page_list' = page_list_after(new_page_list)
       /\ page_info' = info
       /\ IF info.hasNextPage
          THEN /\ pg_pc' = "next"
               /\ pagination' = info.endCursor
          ELSE /\ pg_pc' = "returned"
               /\ UNCHANGED pagination
       /\ attempt' = 0
       /\ retries_count' = DefaultRetriesCount
       /\ wait_time' = 0
       /\ slept' = 0

\* HTTP 200 without errors[]: the response is returned and parsed.
Http200Page ==
    /\ Post
    /\ Answers("page")
    /\ response' = Response(200, "page", <<>>, NoHeader, TRUE)
    /\ AcceptResponse(PageBody(ServedPage(server, pagination)))
    /\ UNCHANGED <<server, sawError>>

\* HTTP 200 without errors[] whose body is not a page.
Http200Malformed ==
    /\ Post
    /\ Answers("malformed")
    /\ sawError' = TRUE
    /\ response' = Response(200, "malformed", <<>>, NoHeader, TRUE)
    /\ \E body \in MalformedBodies : AcceptResponse(body)
    /\ UNCHANGED server

\* A loop that retries without counting its attempts out.
attempts_unlimited(attempts, max_retries) == TRUE

\* lines 349 and 397: whether the request is tried again
attempts_left(attempts, max_retries) == attempts < max_retries

\* A retry that asks again from the page before the one that failed.
retry_from_previous_page(cursor) ==
    IF cursor = NoCursor THEN cursor ELSE cursor - 1

\* lines 333-334 and 380-381: the retry loop posts the query again with the
\* pagination fragment it was entered with.
retry_cursor(cursor) == cursor

\* HTTP 200 whose errors[] holds a rate-limit error: wait, then retry the same
\* request, or raise when the attempts are used up.
Http200RateLimit ==
    /\ Post
    /\ Answers("rate_limit")
    /\ sawError' = TRUE
    /\ \E errors \in ErrorLists :
          /\ first_rate_limit(errors) # 0
          /\ response' = Response(200, "rate_limit", errors, NoHeader, FALSE)
          /\ LET error == errors[first_rate_limit(errors)]
                 wait == wait_for_rate_limit_reset(error)
                 max_retries == IF pg_pc = "first" THEN MaxRetries
                                ELSE PaginationMaxRetries
             IN /\ wait_time' = wait
                /\ attempt' = attempt + 1
                /\ IF attempts_left(attempt + 1, max_retries)
                   THEN /\ slept' = wait + backoff_wait(wait, attempt + 1)
                        /\ UNCHANGED pg_pc
                   ELSE /\ slept' = wait
                        /\ pg_pc' = "raised"
    /\ retries_count' = DefaultRetriesCount
    /\ pagination' = retry_cursor(pagination)
    /\ UNCHANGED <<server, page_list, page_info>>

\* HTTP 200 whose errors[] holds no rate-limit error: logged, and the response
\* is returned as it is.
Http200OtherError ==
    /\ Post
    /\ Answers("errors")
    /\ sawError' = TRUE
    /\ \E errors \in ErrorLists :
          /\ first_rate_limit(errors) = 0
          /\ response' = Response(200, "errors", errors, NoHeader, TRUE)
          /\ AcceptResponse(ErrorBody(errors))
    /\ UNCHANGED server

\* A retry that does not use up the budget.
retry_budget_kept(budget) == budget

\* lines 251 and 256: the budget the retried call is given
retry_budget_after(budget) == budget - 1

\* lines 248 and 253: the wait before the retry
retry_wait(status, header) ==
    IF status = 403 /\ header.present THEN Max(header.in, 1)
    ELSE 2 ^ (BackoffExponentBase - retries_count)

\* A query that is retried however often it failed.
retries_never_out(budget) == TRUE

\* line 241: retries_count > 0
retries_left(budget) == budget > 0

\* fetch_graphql_query on HTTP 403 or 502: retry while retries_count > 0.
HttpRetryable ==
    /\ Post
    /\ Answers("retryable")
    /\ sawError' = TRUE
    /\ \E status \in {403, 502} :
       \E header \in IF status = 403 THEN ResetHeaders ELSE {NoHeader} :
          /\ response' = Response(status, "retryable", <<>>, header, FALSE)
          /\ IF retries_left(retries_count)
             THEN /\ retries_count' = retry_budget_after(retries_count)
                  /\ slept' = retry_wait(status, header)
                  /\ UNCHANGED pg_pc
             ELSE /\ pg_pc' = "raised"
                  /\ slept' = 0
                  /\ UNCHANGED retries_count
    /\ wait_time' = 0
    /\ UNCHANGED <<server, page_list, page_info, pagination, attempt>>

\* fetch_graphql_query on any other status: raise.
HttpFatal ==
    /\ Post
    /\ Answers("fatal")
    /\ sawError' = TRUE
    /\ \E status \in FatalStatuses :
          response' = Response(status, "fatal", <<>>, NoHeader, FALSE)
    /\ pg_pc' = "raised"
    /\ wait_time' = 0
    /\ slept' = 0
    /\ UNCHANGED <<server, page_list, page_info, pagination, attempt,
                   retries_count>>

\* ===================================================== calculate_commit_data
\* ------------------------------------------------------------------ bounds
MaxRuns == 2

\* ------------------------------------------------------- program constants
CacheTtlDays == 7
SecondsPerDay == 86400
DefaultCores == 4
MinConcurrency == 2
MaxDefaultConcurrency == 16

NoLanguage == "None"
NoFile == <<>>
File(content) == <<content>>
isfile(f) == f # NoFile
\* A file that exists and whose text loads() does not parse: it was opened for
\* writing (which empties it) and the process ended before the text was flushed.
Torn == <<EmptyMap, "torn">>
\* lines 29-33 and 47-51: loads(f.read()) does not raise
parses(f) == Len(f) = 1
Garbage == [kind |-> "garbage"]
IsoFormat(t) == [kind |-> "iso", t |-> t]

\* A dictionary key as Python holds it: the int n, or the str of its digits.
IntKey(n) == <<"int", n>>
StrKey(n) == <<"str", n>>
\* json.dumps writes every key as a string.
dumps_key(k) == StrKey(k[2])

\* ------------------------------------------------------- the remote data
\* The repositories the user has, and what the endpoint holds for each.
Repo(i) ==
    CASE i = 1 -> [owner |-> "u1", name |-> "a", primaryLanguage |-> "Python"]
      [] i = 2 -> [owner |-> "u1", name |-> "b", primaryLanguage |-> "Python"]
      [] i = 3 -> [owner |-> "u2", name |-> "a", primaryLanguage |-> NoLanguage]
      [] i = 4 -> [owner |-> "u1", name |-> "c", primaryLanguage |-> "Go"]

Commit(oid, y, m, d, additions, deletions) ==
    [oid |-> oid, committedDate |-> [year |-> y, month |-> m, day |-> d],
     additions |-> additions, deletions |-> deletions]

RemoteBranches(i) ==
    CASE i = 1 -> <<"main", "dev">>
      [] i = 2 -> <<"main">>
      [] i = 3 -> <<"main">>
      [] i = 4 -> <<>>

RemoteCommits(i, branch) ==
    CASE i = 1 /\ branch = "main" -> <<Commit("c1", 2023, 4, 15, 150, 60)>>
      [] i = 1 /\ branch = "dev" -> <<Commit("c1", 2023, 4, 15, 150, 60),
                                      Commit("c2", 2024, 1, 5, 7, 3)>>
      [] i = 2 /\ branch = "main" -> <<Commit("c3", 2023, 4, 15, 150, 60)>>
      [] i = 3 /\ branch = "main" -> <<Commit("c4", 2023, 6, 30, 20, 5)>>

InputLists == {<<1, 2, 4>>, <<1, 3>>}
IgnoreLists == {{}, {"b"}}
ConfiguredConcurrency == {0, 1}
CpuCounts == {0, 1}
ClockSteps == {CacheTtlDays * SecondsPerDay - 1, CacheTtlDays * SecondsPerDay,
               CacheTtlDays * SecondsPerDay + 1}

Range(s) == {s[i] : i \in DOMAIN s}
Put(f, k, v) == [x \in DOMAIN f \cup {k} |-> IF x = k THEN v ELSE f[x]]
Get(f, k, default) == IF k \in DOMAIN f THEN f[k] ELSE default
\* ------------------------------------------------------------- the files
get_repo_cache_path(repo_name) == repo_name

get_cache_index ==
    IF isfile(index_file) /\ parses(index_file) THEN index_file[1]
    ELSE EmptyMap

get_checkpoint ==
    IF isfile(checkpoint_file) /\ parses(checkpoint_file)
    THEN checkpoint_file[1]
    ELSE [processed_repos |-> <<>>, completed_at |-> "None"]

save_checkpoint(processed) ==
    File([processed_repos |-> processed, completed_at |-> "None"])

clear_checkpoint ==
    IF isfile(checkpoint_file)
    THEN File([processed_repos |-> <<>>, completed_at |-> "None"])
    ELSE checkpoint_file

\* loads(f.read()) of a cache file: File(record), or NoFile for None (no
\* file, or a text that loads() does not parse)
get_cached_repo_data(repo_name) ==
    LET cache_path == get_repo_cache_path(repo_name)
    IN IF cache_path \in DOMAIN cache_files
       THEN IF "kind" \in DOMAIN cache_files[cache_path] THEN NoFile
            ELSE File(cache_files[cache_path])
       ELSE NoFile

\* json.dumps of a yearly dictionary: year and quarter keys become strings.
dumps_yearly(yd) ==
    [ys \in {dumps_key(y) : y \in DOMAIN yd} |->
        LET y == CHOOSE y \in DOMAIN yd : dumps_key(y) = ys
        IN [qs \in {dumps_key(q) : q \in DOMAIN yd[y]} |->
               LET q == CHOOSE q \in DOMAIN yd[y] : dumps_key(q) = qs
               IN yd[y][q]]]

\* json.dumps of the cache_data dictionary (its other keys are strings).
dumps(cache_data) ==
    [cache_data EXCEPT !.yearly_data = dumps_yearly(cache_data.yearly_data)]

\* --------------------------------------------------------- the aggregates
Quarter(month) == (month - 1) \div 3 + 1

\* lines 294-301: one commit added under (year, quarter, language)
add_commit_stats(yd, year, quarter, plang, commit) ==
    LET quarters == Get(yd, year, EmptyMap)
        languages == Get(quarters, quarter, EmptyMap)
        stats == Get(languages, plang, [add |-> 0, del |-> 0])
    IN Put(yd, year, Put(quarters, quarter, Put(languages, plang,
           [add |-> stats.add + commit.additions,
            del |-> stats.del + commit.deletions])))

\* A loop that counts the commits of every repository, whatever its language.
language_not_checked(repo_details) == TRUE

\* line 292: repo_details["primaryLanguage"] is not None
has_primary_language(repo_details) == repo_details.primaryLanguage # NoLanguage

\* lines 285-301: the commits of one branch, in order
RECURSIVE process_commits(_, _, _, _, _)
process_commits(repo_details, branch, commit_data, ryd, rdd) ==
    IF commit_data = <<>> THEN <<ryd, rdd>>
    ELSE LET commit == Head(commit_data)
             curr_year == IntKey(commit.committedDate.year)
             quarter == IntKey(Quarter(commit.committedDate.month))
             name == repo_details.name
             rdd1 == [rdd EXCEPT ![name] =
                         Put(@, branch, Put(@[branch], commit.oid,
                                            commit.committedDate))]
             ryd1 == IF has_primary_language(repo_details)
                     THEN add_commit_stats(ryd, curr_year, quarter,
                              repo_details.primaryLanguage, commit)
                     ELSE ryd
         IN process_commits(repo_details, branch, Tail(commit_data),
                            ryd1, rdd1)

\* lines 277-301: one branch's commit list folded into the task's own data
process_branch(repo_details, branch, commit_data, ryd, rdd) ==
    LET name == repo_details.name
        rdd0 == Put(rdd, name, Get(rdd, name, EmptyMap))
        rdd1 == [rdd0 EXCEPT ![name] =
                    Put(@, branch, Get(@, branch, EmptyMap))]
    IN process_commits(repo_details, branch, commit_data, ryd, rdd1)

\* lines 307-317 and 226-236: counts of src added into dst, key by key
merge_yearly(dst, src) ==
    [y \in DOMAIN dst \cup DOMAIN src |->
        IF y \notin DOMAIN src THEN dst[y]
        ELSE LET dq == Get(dst, y, EmptyMap)
             IN [q \in DOMAIN dq \cup DOMAIN src[y] |->
                    IF q \notin DOMAIN src[y] THEN dq[q]
                    ELSE LET dl == Get(dq, q, EmptyMap)
                         IN [l \in DOMAIN dl \cup DOMAIN src[y][q] |->
                                IF l \notin DOMAIN src[y][q] THEN dl[l]
                                ELSE LET st == Get(dl, l, [add |-> 0, del |-> 0])
                                     IN [add |-> st.add + src[y][q][l].add,
                                         del |-> st.del + src[y][q][l].del]]]]

\* An update that merges the value of a key both dictionaries hold instead of
\* replacing it.
update_accumulating(d, other) ==
    [k \in DOMAIN d \cup DOMAIN other |->
        IF k \notin DOMAIN other THEN d[k]
        ELSE IF k \notin DOMAIN d THEN other[k]
        ELSE [x \in DOMAIN d[k] \cup DOMAIN other[k] |->
                 IF x \in DOMAIN other[k] THEN other[k][x] ELSE d[k][x]]]

\* dict.update
update(d, other) ==
    [k \in DOMAIN d \cup DOMAIN other |->
        IF k \in DOMAIN other THEN other[k] ELSE d[k]]

\* lines 319-321: the fetched branches of a repository put into date_data
merge_date_data(dd, repo_name, rdd) ==
    LET dd0 == Put(dd, repo_name, Get(dd, repo_name, EmptyMap))
    IN [dd0 EXCEPT ![repo_name] = update(@, Get(rdd, repo_name, EmptyMap))]

\* lines 324-329: the CacheRecord of a fetched repository
cache_data_of(repo_details, ryd, rdd, t) ==
    [yearly_data |-> ryd,
     date_data |-> Put(EmptyMap, repo_details.name,
                       Get(rdd, repo_details.name, EmptyMap)),
     cached_at |-> IsoFormat(t),
     language |-> repo_details.primaryLanguage]

\* lines 238-242: the cached date_data copied into date_data
load_date_data(dd, repo_name, cached) ==
    LET dd0 == Put(dd, repo_name, Get(dd, repo_name, EmptyMap))
    IN [dd0 EXCEPT ![repo_name] = update(@, cached.date_data)]

\* lines 214-242: load_cached_repo_data
load_cached_repo_data(i, agg) ==
    LET repo_name == Repo(i).name
        cached == get_cached_repo_data(repo_name)
    IN IF cached = NoFile THEN agg
       ELSE [yearly_data |-> merge_yearly(agg.yearly_data,
                                          cached[1].yearly_data),
             date_data |-> load_date_data(agg.date_data, repo_name,
                                          cached[1])]

RECURSIVE load_all(_, _)
load_all(repos, agg) ==
    IF repos = <<>> THEN agg
    ELSE load_all(Tail(repos), load_cached_repo_data(Head(repos), agg))

\* ------------------------------------------------------------ the run
RepoIds == 1..4

\* A run that skips no repository.
ignores_nothing(i) == FALSE

\* lines 126 and 197: repo["name"] in EM.IGNORED_REPOS
Ignored(i) == Repo(i).name \in env.IGNORED_REPOS

\* lines 185-192
max_concurrency ==
    IF env.configured <= 0
    THEN Max(MinConcurrency,
             Min(IF env.cores = 0 THEN DefaultCores ELSE env.cores,
                 MaxDefaultConcurrency))
    ELSE env.configured

\* A staleness test that also expires an entry cached exactly TTL ago.
is_expired_inclusive(last_cached, cutoff_date) == last_cached <= cutoff_date

\* line 143
is_expired(last_cached, cutoff_date) == last_cached < cutoff_date

\* A classification that does not consult the checkpoint.
classify_without_checkpoint(i, processed, index, cutoff_date) ==
    LET repo_name == Repo(i).name
        last_cached_str == Get(index, repo_name, [kind |-> "none"])
    IN IF repo_name \in env.IGNORED_REPOS THEN "skip"
       ELSE IF last_cached_str.kind = "none" THEN "fetch"
       ELSE IF last_cached_str.kind # "iso" THEN "fetch"
       ELSE IF last_cached_str.t < cutoff_date THEN "fetch"
       ELSE "load"

\* lines 126-150: what the run does with one repository
classify(i, processed, index, cutoff_date) ==
    LET repo_name == Repo(i).name
        last_cached_str == Get(index, repo_name, [kind |-> "none"])
    IN IF repo_name \in env.IGNORED_REPOS THEN "skip"
       ELSE IF processed # <<>> /\ repo_name \in Range(processed) THEN "load"
       ELSE IF last_cached_str.kind = "none" THEN "fetch"
       ELSE IF last_cached_str.kind # "iso" THEN "fetch"
       ELSE IF is_expired(last_cached_str.t, cutoff_date) THEN "fetch"
       ELSE "load"

NoTask == [pc |-> "none", bi |-> 0, ryd |-> EmptyMap, rdd |-> EmptyMap]

\* How many of the first p repositories of the list are not ignored.
Rank(list, p) == Cardinality({k \in 1..p : ~Ignored(list[k])})

\* Tasks that enter without a semaphore.
acquires_unbounded(list, p) == TRUE

\* Whether the semaphore lets the task at position p in at once (line 201).
acquires_at_start(list, p) == Rank(list, p) <= max_concurrency

\* lines 196-211: gather starts the tasks in order; each runs to its first
\* suspension: an ignored one returns, the others take a free slot and issue
\* the branch query, or wait for the semaphore.
start_tasks(list) ==
    [i \in RepoIds |->
        IF i \notin Range(list) THEN NoTask
        ELSE LET p == CHOOSE k \in DOMAIN list : list[k] = i
             IN IF Ignored(i) THEN [NoTask EXCEPT !.pc = "skipped"]
                ELSE IF acquires_at_start(list, p)
                     THEN [NoTask EXCEPT !.pc = "branches"]
                     ELSE [NoTask EXCEPT !.pc = "wait_sem"]]

InSection(t) == t.pc \in {"branches", "commits", "sleep"}

InitSync ==
    /\ repositories \in InputLists
    /\ env \in [IGNORED_REPOS : IgnoreLists, configured : ConfiguredConcurrency,
                cores : CpuCounts]
    /\ now = 0
    /\ runs = 0
    /\ cache_files = EmptyMap
    /\ index_file = NoFile
    /\ checkpoint_file = NoFile
    /\ written_by = EmptyMap
    /\ phase = "idle"
    /\ use_cache = TRUE
    /\ yearly_data = EmptyMap
    /\ date_data = EmptyMap
    /\ cache_index = EmptyMap
    /\ processed_repos = <<>>
    /\ repos_to_fetch = <<>>
    /\ repos_to_load = <<>>
    /\ task = [i \in RepoIds |-> NoTask]
    /\ sem = 0
    /\ loaded_index = EmptyMap
    /\ loaded_checkpoint = <<>>
    /\ net_requests = {}
    /\ cache_reads = {}
    /\ disk_before = <<EmptyMap, NoFile, NoFile>>
    /\ failed_before = {}

\* lines 106-158 and 166-170: a run begins, classifies the repositories and
\* starts the tasks of those it fetches.
BeginRun(uc, elapsed) ==
    /\ phase # "fetching"
    /\ runs < MaxRuns
    /\ elapsed = 0 <=> runs = 0
    /\ runs' = runs + 1
    /\ now' = now + elapsed
    /\ use_cache' = uc
    /\ yearly_data' = EmptyMap
    /\ date_data' = EmptyMap
    /\ LET index == IF uc THEN get_cache_index ELSE EmptyMap
           processed == IF uc THEN get_checkpoint.processed_repos ELSE <<>>
           cutoff_date == now' - CacheTtlDays * SecondsPerDay
           IsFetch(i) == classify(i, processed, index, cutoff_date) = "fetch"
           IsLoad(i) == classify(i, processed, index, cutoff_date) = "load"
           to_fetch == IF uc THEN SelectSeq(repositories, IsFetch) ELSE <<>>
           list == IF uc THEN to_fetch ELSE repositories
       IN /\ cache_index' = index
          /\ loaded_index' = index
          /\ processed_repos' = processed
          /\ loaded_checkpoint' = processed
          /\ repos_to_fetch' = to_fetch
          /\ repos_to_load' = IF uc THEN SelectSeq(repositories, IsLoad)
                              ELSE <<>>
          /\ task' = start_tasks(list)
          /\ sem' = max_concurrency
                    - Cardinality({i \in RepoIds : InSection(task'[i])})
          /\ net_requests' = {i \in RepoIds : InSection(task'[i])}
    /\ cache_reads' = {}
    /\ disk_before' = <<cache_files, index_file, checkpoint_file>>
    /\ failed_before' = {i \in RepoIds : task[i].pc = "failed"}
    /\ phase' = "fetching"
    /\ UNCHANGED <<repositories, env, diskVars>>

\* line 201: a task waiting for the semaphore gets a slot that was released
\* and issues its branch query (line 259).
Acquire(i) ==
    /\ phase = "fetching"
    /\ task[i].pc = "wait_sem"
    /\ sem > 0
    /\ sem' = sem - 1
    /\ task' = [task EXCEPT ![i].pc = "branches"]
    /\ net_requests' = net_requests \cup {i}
    /\ UNCHANGED <<envVars, diskVars, phase, use_cache, yearly_data, date_data,
                   cache_index, processed_repos, repos_to_fetch, repos_to_load,
                   loaded_index, loaded_checkpoint, cache_reads, disk_before,
                   failed_before>>

\* lines 204-206: the list the task's name is appended to, unless it holds it
processed_after(i) ==
    IF Repo(i).name \notin Range(processed_repos)
    THEN Append(processed_repos, Repo(i).name)
    ELSE processed_repos

\* A task that appends its name and never saves the checkpoint.
checkpoint_never_saved(i) == checkpoint_file

\* lines 203-206: the checkpoint is saved when the name was appended
checkpoint_after(i) ==
    IF Repo(i).name \notin Range(processed_repos)
    THEN save_checkpoint(processed_after(i))
    ELSE checkpoint_file

\* A branch list that is never taken as empty: the loop over the branches
\* then runs zero times and the merge and the save follow.
branch_data_never_empty(branch_data) == FALSE

\* line 260: len(branch_data) == 0
no_branch_data(branch_data) == Len(branch_data) = 0

\* lines 259-262 and 203-206: the branch list arrives. With no branch the
\* repository is skipped and the task ends; otherwise the commit query of the
\* first branch is issued.
BranchReply(i) ==
    /\ phase = "fetching"
    /\ task[i].pc = "branches"
    /\ IF no_branch_data(RemoteBranches(i))
       THEN /\ task' = [task EXCEPT ![i].pc = "done"]
            /\ sem' = sem + 1
            /\ processed_repos' = processed_after(i)
            /\ checkpoint_file' = checkpoint_after(i)
       ELSE /\ task' = IF Len(RemoteBranches(i)) = 0
                       THEN [task EXCEPT ![i].pc = "sleep"]
                       ELSE [task EXCEPT ![i].pc = "commits", ![i].bi = 1]
            /\ UNCHANGED <<sem, processed_repos, checkpoint_file>>
    /\ UNCHANGED <<envVars, cache_files, index_file, written_by, phase,
                   use_cache, yearly_data, date_data, cache_index,
                   repos_to_fetch, repos_to_load, loaded_index,
                   loaded_checkpoint, net_requests,
                   cache_reads, disk_before, failed_before>>

\* A task that adds what it has counted to the run's yearly data after every
\* branch.
yearly_merged_per_branch(yd, repo_yearly_data) ==
    merge_yearly(yd, repo_yearly_data)

\* lines 264-266 and 285-301: the commits of a branch are counted in the
\* task's own repo_yearly_data; the run's yearly_data is as it was.
yearly_after_branch(yd, repo_yearly_data) == yd

\* lines 270-304: the commit list of the current branch arrives and is folded
\* into the task's own dictionaries; the task then sleeps 0.4 s.
CommitReply(i) ==
    /\ phase = "fetching"
    /\ task[i].pc = "commits"
    /\ LET branch == RemoteBranches(i)[task[i].bi]
           folded == process_branch(Repo(i), branch, RemoteCommits(i, branch),
                                    task[i].ryd, task[i].rdd)
       IN /\ task' = [task EXCEPT ![i].pc = "sleep", ![i].ryd = folded[1],
                                  ![i].rdd = folded[2]]
          /\ yearly_data' = yearly_after_branch(yearly_data, folded[1])
    /\ UNCHANGED <<envVars, diskVars, phase, use_cache, date_data,
                   cache_index, processed_repos, repos_to_fetch, repos_to_load,
                   sem, loaded_index, loaded_checkpoint, net_requests,
                   cache_reads, disk_before, failed_before>>

\* lines 268-276: after the sleep the commit query of the next branch is issued
NextBranch(i) ==
    /\ phase = "fetching"
    /\ task[i].pc = "sleep"
    /\ task[i].bi < Len(RemoteBranches(i))
    /\ task' = [task EXCEPT ![i].pc = "commits", ![i].bi = @ + 1]
    /\ UNCHANGED <<envVars, diskVars, phase, use_cache, yearly_data, date_data,
                   cache_index, processed_repos, repos_to_fetch, repos_to_load,
                   sem, loaded_index, loaded_checkpoint, net_requests,
                   cache_reads, disk_before, failed_before>>

\* An index that each task keeps for itself as it was loaded when the run
\* began.
task_private_index == loaded_index

\* lines 158, 170 and 202: every task is given the one cache_index dictionary
\* of the run, and save_repo_to_cache updates and saves that dictionary.
shared_index == cache_index

\* lines 306-331, 85-92 and 203-206: after the last branch the task merges its
\* data into the aggregates, writes the CacheRecord and the index, leaves the
\* semaphore and saves the checkpoint.
FinishRepo(i) ==
    /\ phase = "fetching"
    /\ task[i].pc = "sleep"
    /\ task[i].bi = Len(RemoteBranches(i))
    /\ yearly_data' = merge_yearly(yearly_data, task[i].ryd)
    /\ date_data' = merge_date_data(date_data, Repo(i).name, task[i].rdd)
    /\ cache_files' = Put(cache_files, get_repo_cache_path(Repo(i).name),
                          dumps(cache_data_of(Repo(i), task[i].ryd,
                                              task[i].rdd, now)))
    /\ written_by' = Put(written_by, get_repo_cache_path(Repo(i).name), i)
    /\ cache_index' = Put(shared_index, Repo(i).name, IsoFormat(now))
    /\ index_file' = File(cache_index')
    /\ sem' = sem + 1
    /\ processed_repos' = processed_after(i)
    /\ checkpoint_file' = checkpoint_after(i)
    /\ task' = [task EXCEPT ![i].pc = "done"]
    /\ UNCHANGED <<envVars, phase, use_cache, repos_to_fetch, repos_to_load,
                   loaded_index, loaded_checkpoint, net_requests,
                   cache_reads, disk_before, failed_before>>

\* manager_download.py lines 257-258, 355, 403: a query of the task raises
\* (a status that is not retried, or the retries used up); the exception
\* leaves update_data_with_commit_stats_and_cache and the semaphore.
QueryRaises(i) ==
    /\ phase = "fetching"
    /\ task[i].pc \in {"branches", "commits"}
    /\ task' = [task EXCEPT ![i].pc = "failed"]
    /\ sem' = sem + 1
    /\ UNCHANGED <<envVars, diskVars, phase, use_cache, yearly_data, date_data,
                   cache_index, processed_repos, repos_to_fetch, repos_to_load,
                   loaded_index, loaded_checkpoint, net_requests,
                   cache_reads, disk_before, failed_before>>

\* line 211: gather raises the exception of a failed task into
\* fetch_and_process_repos, which calculate_commit_data does not catch. The
\* run ends there: the tasks still in flight are never resumed.
GatherRaises ==
    /\ phase = "fetching"
    /\ \E i \in RepoIds : task[i].pc = "failed"
    /\ phase' = "raised"
    /\ task' = [i \in RepoIds |->
                   IF task[i].pc \in {"wait_sem", "branches", "commits", "sleep"}
                   THEN [NoTask EXCEPT !.pc = "cancelled"]
                   ELSE task[i]]
    /\ UNCHANGED <<envVars, diskVars, use_cache, yearly_data, date_data,
                   cache_index, processed_repos, repos_to_fetch, repos_to_load,
                   sem, loaded_index, loaded_checkpoint, net_requests,
                   cache_reads, disk_before, failed_before>>

\* lines 160-165 and 172-179: every task has ended; the repositories of
\* repos_to_load are read from the cache, the checkpoint is cleared (with the
\* cache enabled) and the aggregates are returned.
Return ==
    /\ phase = "fetching"
    /\ \A i \in RepoIds : task[i].pc \in {"none", "skipped", "done"}
    /\ LET agg == load_all(repos_to_load, [yearly_data |-> yearly_data,
                                           date_data |-> date_data])
       IN /\ yearly_data' = agg.yearly_data
          /\ date_data' = agg.date_data
    /\ checkpoint_file' = IF use_cache THEN clear_checkpoint
                          ELSE checkpoint_file
    /\ phase' = "returned"
    /\ cache_reads' = {Repo(i).name : i \in Range(repos_to_load)}
    /\ UNCHANGED <<envVars, cache_files, index_file, written_by, use_cache,
                   cache_index, processed_repos, repos_to_fetch, repos_to_load,
                   task, sem, loaded_index, loaded_checkpoint, net_requests,
                   disk_before, failed_before>>

\* Between two runs an entry of index.json is damaged (the file is not under
\* the program's control while it does not run).
DamageIndexEntry(repo_name) ==
    /\ phase \in {"returned", "raised"}
    /\ runs < MaxRuns
    /\ isfile(index_file)
    /\ repo_name \in DOMAIN index_file[1]
    /\ \A n \in DOMAIN index_file[1] : index_file[1][n].kind = "iso"
    /\ index_file' = File(Put(index_file[1], repo_name, Garbage))
    /\ phase' = "idle"
    /\ UNCHANGED <<envVars, cache_files, checkpoint_file, written_by, use_cache,
                   yearly_data, date_data, cache_index, processed_repos,
                   repos_to_fetch, repos_to_load, task, sem, loaded_index,
                   loaded_checkpoint, net_requests, cache_reads, disk_before,
                   failed_before>>

\* Between two runs the CacheRecord of a repository is lost: the file is
\* removed, or its text is no longer JSON.
DamageCacheRecord(repo_name, removed) ==
    /\ phase \in {"returned", "raised"}
    /\ runs < MaxRuns
    /\ get_repo_cache_path(repo_name) \in DOMAIN cache_files
    /\ cache_files' =
           IF removed
           THEN [q \in DOMAIN cache_files \ {get_repo_cache_path(repo_name)}
                    |-> cache_files[q]]
           ELSE Put(cache_files, get_repo_cache_path(repo_name), Garbage)
    /\ phase' = "idle"
    /\ UNCHANGED <<envVars, index_file, checkpoint_file, written_by, use_cache,
                   yearly_data, date_data, cache_index, processed_repos,
                   repos_to_fetch, repos_to_load, task, sem, loaded_index,
                   loaded_checkpoint, net_requests, cache_reads, disk_before,
                   failed_before>>

\* Between two runs the user changes the ignore-list.
ChangeIgnoreList(ignored) ==
    /\ phase \in {"returned", "raised"}
    /\ runs < MaxRuns
    /\ ignored # env.IGNORED_REPOS
    /\ env' = [env EXCEPT !.IGNORED_REPOS = ignored]
    /\ phase' = "idle"
    /\ UNCHANGED <<repositories, now, runs, diskVars, use_cache, yearly_data,
                   date_data, cache_index, processed_repos, repos_to_fetch,
                   repos_to_load, task, sem, loaded_index, loaded_checkpoint,
                   net_requests, cache_reads, disk_before, failed_before>>

\* ------------------------------------------------- the process is ended
\* lines 89-92: the CacheRecord (89-90), then index.json (91-92, 40-41)
save_order == <<"record", "index">>

\* The process can end before each file operation of a task's last step and
\* after the last one: each file is opened (and emptied by the open) and then
\* written and closed; the checkpoint is opened last.
SavePoints == 1..5

\* What a file of save_order holds when the process ends after `point`
\* file operations: its old text, no text, or its new text.
file_at(file, point) ==
    LET pos == CHOOSE k \in DOMAIN save_order : save_order[k] = file
    IN IF point >= 2 * pos THEN "new"
       ELSE IF point = 2 * pos - 1 THEN "torn"
       ELSE "old"

\* The tasks of a process that has ended: none of them is resumed.
ended_tasks ==
    [i \in RepoIds |->
        IF task[i].pc \in {"wait_sem", "branches", "commits", "sleep"}
        THEN [NoTask EXCEPT !.pc = "cancelled"]
        ELSE task[i]]

\* The process is ended (killed, or the job is cancelled) while every task is
\* suspended at an await: the files are as the last step left them.
Terminate ==
    /\ phase = "fetching"
    /\ phase' = "killed"
    /\ task' = ended_tasks
    /\ UNCHANGED <<envVars, diskVars, use_cache, yearly_data, date_data,
                   cache_index, processed_repos, repos_to_fetch, repos_to_load,
                   sem, loaded_index, loaded_checkpoint, net_requests,
                   cache_reads, disk_before, failed_before>>

\* lines 85-92 and 204-206, 62-63: the process is ended inside the step that
\* saves repository i, after `point` of its file operations. No other task
\* runs inside the step (it has no await), but the process can end there.
TerminateInSave(i, point) ==
    /\ phase = "fetching"
    /\ task[i].pc = "sleep"
    /\ task[i].bi = Len(RemoteBranches(i))
    /\ point = 5 => Repo(i).name \notin Range(processed_repos)
    /\ LET cache_path == get_repo_cache_path(Repo(i).name)
           record == dumps(cache_data_of(Repo(i), task[i].ryd, task[i].rdd,
                                         now))
           index == Put(shared_index, Repo(i).name, IsoFormat(now))
       IN /\ cache_files' =
                 CASE file_at("record", point) = "old" -> cache_files
                   [] file_at("record", point) = "torn" ->
                          Put(cache_files, cache_path, Garbage)
                   [] file_at("record", point) = "new" ->
                          Put(cache_files, cache_path, record)
          /\ index_file' =
                 CASE file_at("index", point) = "old" -> index_file
                   [] file_at("index", point) = "torn" -> Torn
                   [] file_at("index", point) = "new" -> File(index)
          /\ written_by' =
                 IF file_at("record", point) = "old" THEN written_by
                 ELSE Put(written_by, cache_path, i)
    /\ checkpoint_file' = IF point = 5 THEN Torn ELSE checkpoint_file
    /\ phase' = "killed"
    /\ task' = ended_tasks
    /\ UNCHANGED <<envVars, use_cache, yearly_data, date_data, cache_index,
                   processed_repos, repos_to_fetch, repos_to_load, sem,
                   loaded_index, loaded_checkpoint, net_requests, cache_reads,
                   disk_before, failed_before>>

\* lines 260-262 and 204-206, 62-63: the process is ended while the checkpoint
\* is written for a repository without branches.
TerminateInSkip(i) ==
    /\ phase = "fetching"
    /\ task[i].pc = "branches"
    /\ no_branch_data(RemoteBranches(i))
    /\ Repo(i).name \notin Range(processed_repos)
    /\ checkpoint_file' = Torn
    /\ phase' = "killed"
    /\ task' = ended_tasks
    /\ UNCHANGED <<envVars, cache_files, index_file, written_by, use_cache,
                   yearly_data, date_data, cache_index, processed_repos,
                   repos_to_fetch, repos_to_load, sem, loaded_index,
                   loaded_checkpoint, net_requests, cache_reads, disk_before,
                   failed_before>>

\* ======================================================== get_remote_graphql
\* ------------------------------------------------------------------ bounds
DmMaxTasks == 2
DmMaxPages == 2
DmMaxErrors == 1

\* The repository of the tasks: u1/a.
DmRepos == {1}
\* GHM.USER.node_id
UserNodeId == "user"
\* The queries of GITHUB_API_QUERIES that hold "$pagination".
PaginatedQueries == {"repo_branch_list", "repo_commit_list"}

\* line 436: the query identifier and the MD5 digest of the parameters, which
\* json.dumps writes with their names sorted. The digest is taken to differ
\* for different parameters; a record has no order of fields.
Key(query, kwargs) == <<query, kwargs>>
BranchListKey(r) ==
    Key("repo_branch_list", [owner |-> Repo(r).owner, name |-> Repo(r).name])
CommitListKey(r, branch) ==
    Key("repo_commit_list", [owner |-> Repo(r).owner, name |-> Repo(r).name,
                             branch |-> branch, id |-> UserNodeId])
NoKey == Key("", EmptyMap)

\* The servers of a query: 1..DmMaxPages pages of one node each, of which at
\* most one page is empty. A node of the branch list is a branch, its name
\* the node.
DmServers ==
    {ServerPages(n, [k \in 1..n |-> IF k = e THEN 0 ELSE 1]) :
        n \in 1..DmMaxPages, e \in 0..DmMaxPages}

InitDmIdle ==
    /\ REMOTE_RESOURCES_CACHE = EmptyMap
    /\ dm_tasks = 0
    /\ dm_repo = 0
    /\ dm_pc = "idle"
    /\ dm_key = NoKey
    /\ dm_branch_data = <<>>
    /\ dm_bi = 0
    /\ dm_posts = 0
    /\ returned_calls = <<>>

\* A download manager that looks nothing up.
never_cached(key) == FALSE

\* line 437
cached(key) == key \in DOMAIN REMOTE_RESOURCES_CACHE

\* A caller that goes on as soon as a page of its query has arrived.
page_arrived == pg_pc \in {"next", "returned"}

\* line 422: fetch_graphql_paginated returns, and the await of line 439 ends
call_returned == pg_pc = "returned"

\* update_data_with_commit_stats_and_cache, lines 256-259: a task begins and
\* calls get_remote_graphql for the branch list of its repository.
BeginTask(r) ==
    /\ dm_pc \in {"idle", "done", "raised"}
    /\ dm_tasks < DmMaxTasks
    /\ dm_tasks' = dm_tasks + 1
    /\ dm_repo' = r
    /\ dm_pc' = "call"
    /\ dm_key' = BranchListKey(r)
    /\ dm_branch_data' = <<>>
    /\ dm_bi' = 0
    /\ dm_posts' = 0
    /\ UNCHANGED <<REMOTE_RESOURCES_CACHE, returned_calls>>

\* lines 259-304: the task goes on with what its call returned: with the
\* commit query of the first branch after the branch list, with that of the
\* next branch after a commit list, and ends after the last.
TaskResumes(res) ==
    /\ dm_posts' = 0
    /\ IF dm_key[1] = "repo_branch_list"
       THEN /\ dm_branch_data' = res
            /\ IF no_branch_data(res)
               THEN /\ dm_pc' = "done"
                    /\ UNCHANGED <<dm_key, dm_bi>>
               ELSE /\ dm_pc' = "call"
                    /\ dm_bi' = 1
                    /\ dm_key' = CommitListKey(dm_repo, res[1])
       ELSE /\ UNCHANGED dm_branch_data
            /\ IF dm_bi < Len(dm_branch_data)
               THEN /\ dm_pc' = "call"
                    /\ dm_bi' = dm_bi + 1
                    /\ dm_key' = CommitListKey(dm_repo,
                                              dm_branch_data[dm_bi + 1])
               ELSE /\ dm_pc' = "done"
                    /\ UNCHANGED <<dm_key, dm_bi>>

\* line 445: get_remote_graphql returns res to the task.
Returns(res) ==
    /\ returned_calls' =
           Append(returned_calls,
                  [task |-> dm_tasks, bi |-> dm_bi, key |-> dm_key,
                   res |-> res, network |-> dm_posts > 0,
                   has_next |-> dm_posts > 0 /\ page_info.hasNextPage])
    /\ TaskResumes(res)

\* lines 437, 443-445: the key is in the cache.
GetCached ==
    /\ dm_pc = "call"
    /\ cached(dm_key)
    /\ Returns(REMOTE_RESOURCES_CACHE[dm_key])
    /\ UNCHANGED <<REMOTE_RESOURCES_CACHE, dm_tasks, dm_repo>>
    /\ UNCHANGED pageVars

\* lines 437-439: the key is not in the cache, fetch_graphql_paginated begins
\* (lines 329-336) against what the endpoint holds for the query now.
StartFetch ==
    /\ dm_pc = "call"
    /\ ~cached(dm_key)
    /\ dm_key[1] \in PaginatedQueries
    /\ dm_pc' = "fetch"
    /\ server' \in DmServers
    /\ pg_pc' = "first"
    /\ page_list' = <<>>
    /\ page_info' = [hasNextPage |-> FALSE]
    /\ pagination' = NoCursor
    /\ attempt' = 0
    /\ retries_count' = DefaultRetriesCount
    /\ requests' = <<>>
    /\ response' = NoResponse
    /\ wait_time' = 0
    /\ slept' = 0
    /\ call_requests' = 0
    /\ page_calls' = 0
    /\ sawError' = FALSE
    /\ UNCHANGED <<errBudget, REMOTE_RESOURCES_CACHE, dm_tasks,
                   dm_repo, dm_key, dm_branch_data, dm_bi, dm_posts,
                   returned_calls>>

\* The locals of fetch_graphql_paginated are gone when it is left.
FetchEnds ==
    /\ pg_pc' = "idle"
    /\ server' = <<>>
    /\ page_list' = <<>>
    /\ page_info' = [hasNextPage |-> FALSE]
    /\ pagination' = NoCursor
    /\ attempt' = 0
    /\ retries_count' = DefaultRetriesCount
    /\ requests' = <<>>
    /\ sawError' = FALSE
    /\ response' = NoResponse
    /\ wait_time' = 0
    /\ slept' = 0
    /\ call_requests' = 0
    /\ page_calls' = 0
    /\ UNCHANGED errBudget

\* One POST of the fetch in flight.
FetchStep ==
    /\ dm_pc = "fetch"
    /\ dm_posts' = dm_posts + 1
    /\ UNCHANGED <<REMOTE_RESOURCES_CACHE, dm_tasks, dm_repo, dm_pc, dm_key,
                   dm_branch_data, dm_bi, returned_calls>>

\* lines 439-445: the fetch returned; its result is stored under the key and
\* returned.
FetchReturned ==
    /\ dm_pc = "fetch"
    /\ call_returned
    /\ REMOTE_RESOURCES_CACHE' = Put(REMOTE_RESOURCES_CACHE, dm_key, page_list)
    /\ Returns(page_list)
    /\ FetchEnds
    /\ UNCHANGED <<dm_tasks, dm_repo>>

\* line 439: the fetch raised; the exception leaves get_remote_graphql before
\* line 442 and ends the task.
FetchRaised ==
    /\ dm_pc = "fetch"
    /\ pg_pc = "raised"
    /\ dm_pc' = "raised"
    /\ FetchEnds
    /\ UNCHANGED <<REMOTE_RESOURCES_CACHE, dm_tasks, dm_repo, dm_key,
                   dm_branch_data, dm_bi, dm_posts, returned_calls>>

\* ============================================================ CacheManager
\* ------------------------------------------------------- program constants
CacheExpiry == 86400

\* ------------------------------------------------------------------ bounds
\* The moments at which calls are made: entries can be one second old,
\* exactly CacheExpiry old and one second older than that.
CmTimes == {0, 1, CacheExpiry, CacheExpiry + 1, CacheExpiry + 2}

CmRepos == {"repo1", "repo2"}
\* The data of the tests: dictionaries with string keys.
CmData ==
    {[k \in {StrKey("language")} |-> "Python"],
     [k \in {StrKey("language")} |-> "JavaScript"]}

NoneValue == <<"None">>
Some(data) == <<"value", data>>
RaisedValue == <<"raised">>

\* json.dump writes every key of the data as a string.
dump_data(data) ==
    [k \in {dumps_key(x) : x \in DOMAIN data} |->
        data[CHOOSE x \in DOMAIN data : dumps_key(x) = k]]

\* lines 78-81: the text json.dump writes for cache_data
cm_dump(cache_data) ==
    [r \in DOMAIN cache_data |->
        [timestamp |-> cache_data[r].timestamp,
         data |-> dump_data(cache_data[r].data)]]

\* A cache manager that lets the decoding error through.
decode_error_propagates(default) == [raised |-> TRUE, value |-> default]

\* lines 57-59 and 73-75: except (json.JSONDecodeError, IOError)
on_decode_error(default) == [raised |-> FALSE, value |-> default]

\* lines 44-46 and 69-75: open the file and json.load it
load_cache_file(default) ==
    IF parses(cm_file) THEN [raised |-> FALSE, value |-> cm_file[1]]
    ELSE on_decode_error(default)

\* lines 32-59
get_cached_data(repo_name) ==
    IF ~isfile(cm_file) THEN NoneValue
    ELSE LET loaded == load_cache_file(EmptyMap)
             cache_data == loaded.value
         IN IF loaded.raised THEN RaisedValue
            ELSE IF ~parses(cm_file) THEN NoneValue
            ELSE IF repo_name \notin DOMAIN cache_data THEN NoneValue
            ELSE IF cm_clock - cache_data[repo_name].timestamp > CacheExpiry
                 THEN NoneValue
            ELSE Some(cache_data[repo_name].data)

\* A cache manager that starts every update from an empty dictionary.
empty_cache_data == [raised |-> FALSE, value |-> EmptyMap]

\* lines 68-75: cache_data as update_cache has it before line 78
read_cache_data ==
    IF ~isfile(cm_file) THEN [raised |-> FALSE, value |-> EmptyMap]
    ELSE load_cache_file(EmptyMap)

\* What the call finds at cache_path.
cm_found ==
    IF ~isfile(cm_file) THEN "absent"
    ELSE IF parses(cm_file) THEN "json" ELSE "corrupt"

InitCmIdle ==
    /\ cm_file = NoFile
    /\ cm_clock = 0
    /\ cm_updates = EmptyMap
    /\ cm_call = [op |-> "none", repo_name |-> "", found |-> "absent",
                 result |-> NoneValue]

\* lines 32-59: one call of get_cached_data
GetCachedData(repo_name) ==
    /\ cm_call' = [op |-> "get_cached_data", repo_name |-> repo_name,
                   found |-> cm_found, result |-> get_cached_data(repo_name)]
    /\ UNCHANGED <<cm_file, cm_clock, cm_updates>>

\* lines 61-81: one call of update_cache
UpdateCache(repo_name, data) ==
    LET read == read_cache_data
        cache_data == Put(read.value, repo_name,
                          [timestamp |-> cm_clock, data |-> data])
    IN IF read.raised
       THEN /\ cm_call' = [op |-> "update_cache", repo_name |-> repo_name,
                           found |-> cm_found, result |-> RaisedValue]
            /\ UNCHANGED <<cm_file, cm_clock, cm_updates>>
       ELSE /\ cm_file' = File(cm_dump(cache_data))
            /\ cm_updates' = Put(cm_updates, repo_name,
                                 [timestamp |-> cm_clock, data |-> data])
            /\ cm_call' = [op |-> "update_cache", repo_name |-> repo_name,
                           found |-> cm_found, result |-> Some(data)]
            /\ UNCHANGED cm_clock

\* lines 83-86: clear_cache
ClearCache ==
    /\ isfile(cm_file)
    /\ cm_file' = NoFile
    /\ cm_updates' = EmptyMap
    /\ cm_call' = [op |-> "clear_cache", repo_name |-> "", found |-> cm_found,
                   result |-> NoneValue]
    /\ UNCHANGED cm_clock

\* The file is replaced by a text that is not JSON, as the test of lines
\* 98-110 does; what update_cache had stored is gone with it.
CorruptCacheFile ==
    /\ cm_file # Torn
    /\ cm_file' = Torn
    /\ cm_updates' = EmptyMap
    /\ cm_call' = [op |-> "corrupt", repo_name |-> "", found |-> cm_found,
                   result |-> NoneValue]
    /\ UNCHANGED cm_clock

\* time.time() at the next call
CmTick(t) ==
    /\ t > cm_clock
    /\ cm_clock' = t
    /\ UNCHANGED <<cm_file, cm_updates, cm_call>>

\* ------------------------------------------- queries answered with errors
\* The errors[] of a response that is not retried: no rate-limit error in it.
OtherErrors == {errors \in ErrorLists : first_rate_limit(errors) = 0}

\* manager_download.py lines 356-371 and 422: what the paginated query returns
\* when its first response carries such errors.
partial_list(errors) == find_pagination_and_data_list(ErrorBody(errors))[1]

\* lines 259-262 and 203-206: the branch query is answered with errors.
BranchReplyError(i, errors) ==
    /\ phase = "fetching"
    /\ task[i].pc = "branches"
    /\ no_branch_data(partial_list(errors))
    /\ task' = [task EXCEPT ![i].pc = "done"]
    /\ sem' = sem + 1
    /\ processed_repos' = processed_after(i)
    /\ checkpoint_file' = checkpoint_after(i)
    /\ error_replies' = error_replies \cup {i}
    /\ UNCHANGED <<envVars, cache_files, index_file, written_by, phase,
                   use_cache, yearly_data, date_data, cache_index,
                   repos_to_fetch, repos_to_load, loaded_index,
                   loaded_checkpoint, net_requests,
                   cache_reads, disk_before, failed_before>>

\* lines 270-304: the commit query of the current branch is answered with
\* errors; what it returns is folded into the task's dictionaries.
CommitReplyError(i, errors) ==
    /\ phase = "fetching"
    /\ task[i].pc = "commits"
    /\ LET branch == RemoteBranches(i)[task[i].bi]
           folded == process_branch(Repo(i), branch, partial_list(errors),
                                    task[i].ryd, task[i].rdd)
       IN task' = [task EXCEPT ![i].pc = "sleep", ![i].ryd = folded[1],
                               ![i].rdd = folded[2]]
    /\ error_replies' = error_replies \cup {i}
    /\ UNCHANGED <<envVars, diskVars, phase, use_cache, yearly_data, date_data,
                   cache_index, processed_repos, repos_to_fetch, repos_to_load,
                   sem, loaded_index, loaded_checkpoint, net_requests,
                   cache_reads, disk_before, failed_before>>

\* -------------------------------------------- the two update functions
LgMaxCommits == 2

NotRun == <<>>
LgRepos ==
    {[owner |-> "u1", name |-> "a", primaryLanguage |-> l] :
        l \in {"Python", NoLanguage}}
LgBranchLists == {<<>>, <<"main">>, <<"main", "dev">>}
LgCommits == {Commit("c1", 2023, 4, 15, 150, 60),
              Commit("c2", 2024, 1, 5, 7, 3),
              Commit("c3", 2023, 6, 30, 20, 5)}
\* Commit lists of up to LgMaxCommits commits, none of them twice.
LgCommitLists ==
    {cs \in UNION {[1..n -> LgCommits] : n \in 0..LgMaxCommits} :
        \A j, k \in DOMAIN cs : cs[j] = cs[k] => j = k}

\* lines 370-377: one commit added under (year, quarter, language)
legacy_add_commit_stats(yd, curr_year, quarter, plang, commit) ==
    LET y0 == IF curr_year \in DOMAIN yd THEN yd
              ELSE Put(yd, curr_year, EmptyMap)
        y1 == IF quarter \in DOMAIN y0[curr_year] THEN y0
              ELSE [y0 EXCEPT ![curr_year] = Put(@, quarter, EmptyMap)]
        y2 == IF plang \in DOMAIN y1[curr_year][quarter] THEN y1
              ELSE [y1 EXCEPT ![curr_year][quarter] =
                       Put(@, plang, [add |-> 0, del |-> 0])]
    IN [y2 EXCEPT ![curr_year][quarter][plang] =
           [add |-> @.add + commit.additions,
            del |-> @.del + commit.deletions]]

\* A legacy loop that counts the commits of a repository without language.
legacy_language_not_checked(repo_details) == TRUE

\* line 368: repo_details["primaryLanguage"] is not None
legacy_has_primary_language(repo_details) ==
    repo_details.primaryLanguage # NoLanguage

\* lines 361-377: the commits of one branch, in order, written into the
\* dictionaries the caller gave
RECURSIVE legacy_process_commits(_, _, _, _, _)
legacy_process_commits(repo_details, branch, commit_data, yd, dd) ==
    IF commit_data = <<>> THEN <<yd, dd>>
    ELSE LET commit == Head(commit_data)
             curr_year == IntKey(commit.committedDate.year)
             quarter == IntKey((commit.committedDate.month - 1) \div 3 + 1)
             repo_name == repo_details.name
             dd1 == [dd EXCEPT ![repo_name][branch] =
                        Put(@, commit.oid, commit.committedDate)]
             yd1 == IF legacy_has_primary_language(repo_details)
                    THEN legacy_add_commit_stats(yd, curr_year, quarter,
                             repo_details.primaryLanguage, commit)
                    ELSE yd
         IN legacy_process_commits(repo_details, branch, Tail(commit_data),
                                   yd1, dd1)

\* lines 345-380: the branches in order; lines 356-359 make the entries of
\* the repository and of the branch where date_data has none
RECURSIVE legacy_branches(_, _, _, _, _)
legacy_branches(repo_details, branch_data, commits, yd, dd) ==
    IF branch_data = <<>> THEN <<yd, dd>>
    ELSE LET repo_name == repo_details.name
             branch == Head(branch_data)
             dd0 == IF repo_name \in DOMAIN dd THEN dd
                    ELSE Put(dd, repo_name, EmptyMap)
             dd1 == IF branch \in DOMAIN dd0[repo_name] THEN dd0
                    ELSE [dd0 EXCEPT ![repo_name] = Put(@, branch, EmptyMap)]
             done == legacy_process_commits(repo_details, branch,
                                            commits[branch], yd, dd1)
         IN legacy_branches(repo_details, Tail(branch_data), commits,
                            done[1], done[2])

\* lines 335-380: the legacy function; the aggregates it leaves
update_data_with_commit_stats(repo_details, branch_data, commits, yd, dd) ==
    IF no_branch_data(branch_data) THEN <<yd, dd>>
    ELSE legacy_branches(repo_details, branch_data, commits, yd, dd)

\* lines 268-304: the branches in order, folded into the function's own
\* dictionaries
RECURSIVE local_branches(_, _, _, _, _)
local_branches(repo_details, branch_data, commits, ryd, rdd) ==
    IF branch_data = <<>> THEN <<ryd, rdd>>
    ELSE LET folded == process_branch(repo_details, Head(branch_data),
                           commits[Head(branch_data)], ryd, rdd)
         IN local_branches(repo_details, Tail(branch_data), commits,
                           folded[1], folded[2])

\* lines 245-321: the caching function; the aggregates it leaves (the record
\* and the index entry of lines 323-331 are no part of them)
update_data_with_commit_stats_and_cache(repo, branch_data, commits, yd, dd) ==
    IF no_branch_data(branch_data) THEN <<yd, dd>>
    ELSE LET folded == local_branches(repo, branch_data, commits,
                                      EmptyMap, EmptyMap)
         IN <<merge_yearly(yd, folded[1]),
              merge_date_data(dd, repo.name, folded[2])>>

InitLgIdle ==
    /\ lg_repo = Repo(1)
    /\ lg_branches = <<>>
    /\ lg_commits = EmptyMap
    /\ lg_legacy = NotRun
    /\ lg_new = NotRun

\* A repository and what the endpoint holds for it; both functions are yet
\* to run.
InitLg ==
    /\ lg_repo \in LgRepos
    /\ lg_branches \in LgBranchLists
    /\ lg_commits \in [Range(lg_branches) -> LgCommitLists]
    /\ lg_legacy = NotRun
    /\ lg_new = NotRun

\* The legacy function runs on empty aggregates.
RunLegacy ==
    /\ lg_legacy = NotRun
    /\ lg_legacy' = update_data_with_commit_stats(lg_repo, lg_branches,
                         lg_commits, EmptyMap, EmptyMap)
    /\ UNCHANGED <<lg_repo, lg_branches, lg_commits, lg_new>>

\* The caching function runs on empty aggregates.
RunNew ==
    /\ lg_new = NotRun
    /\ lg_new' = update_data_with_commit_stats_and_cache(lg_repo, lg_branches,
                      lg_commits, EmptyMap, EmptyMap)
    /\ UNCHANGED <<lg_repo, lg_branches, lg_commits, lg_legacy>>

\* ------------------------------------------- overlapping get_remote_graphql
OvMaxCalls == 3

\* Two tasks of the gather of fetch_and_process_repos (lines 208-211) that
\* hold the semaphore together.
OvCallers == {1, 2}
\* The branch lists of u1/a and of u1/b.
OvKeys == {BranchListKey(1), BranchListKey(2)}
\* What a fetch of a branch list returns once the endpoint has answered.
OvResults == {<<>>, <<"main">>, <<"main", "dev">>}

NoCall == [pc |-> "idle", key |-> NoKey, res |-> <<>>, fetched |-> FALSE,
           overlapped |-> FALSE]

InitOvIdle ==
    /\ ov_call = [c \in OvCallers |-> NoCall]
    /\ ov_calls = 0

\* line 437: only what a call that returned has stored counts as cached.
ov_cached(key) == key \in DOMAIN REMOTE_RESOURCES_CACHE

\* The calls of the other tasks that are suspended in their fetch of the key.
InFlight(c, key) ==
    {d \in OvCallers \ {c} :
        ov_call[d].pc = "fetching" /\ ov_call[d].key = key}

\* lines 436-439, 443-445: a task calls get_remote_graphql. With the key in
\* the cache the call returns at once (lines 443-445); otherwise it begins
\* the fetch and is suspended at the await of line 439.
OvCall(c, key) ==
    /\ ov_call[c].pc # "fetching"
    /\ ov_calls < OvMaxCalls
    /\ ov_calls' = ov_calls + 1
    /\ LET mine == IF ov_cached(key)
                   THEN [pc |-> "returned", key |-> key,
                         res |-> REMOTE_RESOURCES_CACHE[key],
                         fetched |-> FALSE,
                         overlapped |-> InFlight(c, key) # {}]
                   ELSE [pc |-> "fetching", key |-> key, res |-> <<>>,
                         fetched |-> TRUE,
                         overlapped |-> InFlight(c, key) # {}]
       IN ov_call' =
              [d \in OvCallers |->
                  IF d = c THEN mine
                  ELSE [ov_call[d] EXCEPT
                           !.overlapped = d \in InFlight(c, key)]]
    /\ UNCHANGED REMOTE_RESOURCES_CACHE

\* lines 439-445: the fetch of a suspended call returns; the result is stored
\* under the key and returned.
OvFetchReturns(c, res) ==
    /\ ov_call[c].pc = "fetching"
    /\ REMOTE_RESOURCES_CACHE' =
           Put(REMOTE_RESOURCES_CACHE, ov_call[c].key, res)
    /\ ov_call' = [ov_call EXCEPT ![c].pc = "returned", ![c].res = res]
    /\ UNCHANGED ov_calls

\* line 439: the fetch of a suspended call raises; nothing is stored.
OvFetchRaises(c) ==
    /\ ov_call[c].pc = "fetching"
    /\ ov_call' = [ov_call EXCEPT ![c].pc = "raised"]
    /\ UNCHANGED <<REMOTE_RESOURCES_CACHE, ov_calls>>

InitExtIdle ==
    /\ InitCmIdle
    /\ error_replies = {}
    /\ backoff_waits = 0
    /\ InitOvIdle
    /\ InitLgIdle

InitPageIdle ==
    /\ server = <<>>
    /\ errBudget = 0
    /\ pg_pc = "idle"
    /\ page_list = <<>>
    /\ page_info = [hasNextPage |-> FALSE]
    /\ pagination = NoCursor
    /\ attempt = 0
    /\ retries_count = DefaultRetriesCount
    /\ requests = <<>>
    /\ sawError = FALSE
    /\ response = NoResponse
    /\ wait_time = 0
    /\ slept = 0
    /\ call_requests = 0
    /\ page_calls = 0

InitSyncIdle ==
    /\ InitSync
    /\ repositories = <<1, 2, 4>>
    /\ env = [IGNORED_REPOS |-> {}, configured |-> 0, cores |-> 0]

vars == <<pageVars, syncVars, dmVars, extVars>>

Init == InitSync /\ InitPageIdle /\ InitDmIdle /\ InitExtIdle

Next ==
    \/ \E uc \in BOOLEAN : \E elapsed \in ClockSteps \cup {0} :
           BeginRun(uc, elapsed) /\ UNCHANGED <<pageVars, dmVars, extVars>>
    \/ \E i \in RepoIds : Acquire(i) /\ UNCHANGED <<pageVars, dmVars, extVars>>
    \/ \E i \in RepoIds : BranchReply(i) /\ UNCHANGED <<pageVars, dmVars, extVars>>
    \/ \E i \in RepoIds : CommitReply(i) /\ UNCHANGED <<pageVars, dmVars, extVars>>
    \/ \E i \in RepoIds : NextBranch(i) /\ UNCHANGED <<pageVars, dmVars, extVars>>
    \/ \E i \in RepoIds : FinishRepo(i) /\ UNCHANGED <<pageVars, dmVars, extVars>>
    \/ \E i \in RepoIds : QueryRaises(i) /\ UNCHANGED <<pageVars, dmVars, extVars>>
    \/ GatherRaises /\ UNCHANGED <<pageVars, dmVars, extVars>>
    \/ Return /\ UNCHANGED <<pageVars, dmVars, extVars>>
    \/ \E n \in {"a", "b", "c"} : DamageIndexEntry(n) /\ UNCHANGED <<pageVars, dmVars, extVars>>
    \/ \E n \in {"a", "b", "c"} : \E removed \in BOOLEAN :
           DamageCacheRecord(n, removed) /\ UNCHANGED <<pageVars, dmVars, extVars>>
    \/ \E ignored \in IgnoreLists :
           ChangeIgnoreList(ignored) /\ UNCHANGED <<pageVars, dmVars, extVars>>

Spec == Init /\ [][Next]_vars

InitPage == InitPaginated /\ InitSyncIdle /\ InitDmIdle /\ InitExtIdle

NextPage ==
    \/ Http200Page /\ UNCHANGED <<syncVars, dmVars, extVars>>
    \/ Http200Malformed /\ UNCHANGED <<syncVars, dmVars, extVars>>
    \/ Http200RateLimit /\ UNCHANGED <<syncVars, dmVars, extVars>>
    \/ Http200OtherError /\ UNCHANGED <<syncVars, dmVars, extVars>>
    \/ HttpRetryable /\ UNCHANGED <<syncVars, dmVars, extVars>>
    \/ HttpFatal /\ UNCHANGED <<syncVars, dmVars, extVars>>

SpecPage == InitPage /\ [][NextPage]_vars

\* The endpoint answers every request that is posted, and the event loop
\* resumes the coroutine after every sleep: a step that can be taken is taken.
SpecPageLive == InitPage /\ [][NextPage]_vars /\ WF_vars(NextPage)

\* An endpoint whose only faulty responses are rate-limit errors.
NextRate ==
    \/ Http200Page /\ UNCHANGED <<syncVars, dmVars, extVars>>
    \/ Http200RateLimit /\ UNCHANGED <<syncVars, dmVars, extVars>>

SpecRate == InitPage /\ [][NextRate]_vars

\* The runs of a job that can be ended at any point and started again.
NextCrash ==
    \/ \E uc \in BOOLEAN : \E elapsed \in ClockSteps \cup {0} :
           BeginRun(uc, elapsed) /\ UNCHANGED <<pageVars, dmVars, extVars>>
    \/ \E i \in RepoIds : Acquire(i) /\ UNCHANGED <<pageVars, dmVars, extVars>>
    \/ \E i \in RepoIds : BranchReply(i) /\ UNCHANGED <<pageVars, dmVars, extVars>>
    \/ \E i \in RepoIds : CommitReply(i) /\ UNCHANGED <<pageVars, dmVars, extVars>>
    \/ \E i \in RepoIds : NextBranch(i) /\ UNCHANGED <<pageVars, dmVars, extVars>>
    \/ \E i \in RepoIds : FinishRepo(i) /\ UNCHANGED <<pageVars, dmVars, extVars>>
    \/ Return /\ UNCHANGED <<pageVars, dmVars, extVars>>
    \/ Terminate /\ UNCHANGED <<pageVars, dmVars, extVars>>
    \/ \E i \in RepoIds : \E point \in SavePoints :
           TerminateInSave(i, point) /\ UNCHANGED <<pageVars, dmVars, extVars>>
    \/ \E i \in RepoIds : TerminateInSkip(i) /\ UNCHANGED <<pageVars, dmVars, extVars>>

SpecCrash == Init /\ [][NextCrash]_vars

InitDM ==
    /\ InitDmIdle
    /\ InitExtIdle
    /\ InitSyncIdle
    /\ server = <<>>
    /\ errBudget \in 0..DmMaxErrors
    /\ pg_pc = "idle"
    /\ page_list = <<>>
    /\ page_info = [hasNextPage |-> FALSE]
    /\ pagination = NoCursor
    /\ attempt = 0
    /\ retries_count = DefaultRetriesCount
    /\ requests = <<>>
    /\ sawError = FALSE
    /\ response = NoResponse
    /\ wait_time = 0
    /\ slept = 0
    /\ call_requests = 0
    /\ page_calls = 0

NextDM ==
    \/ \E r \in DmRepos : BeginTask(r) /\ UNCHANGED <<pageVars, syncVars, extVars>>
    \/ GetCached /\ UNCHANGED <<syncVars, extVars>>
    \/ StartFetch /\ UNCHANGED <<syncVars, extVars>>
    \/ Http200Page /\ FetchStep /\ UNCHANGED <<syncVars, extVars>>
    \/ Http200Malformed /\ FetchStep /\ UNCHANGED <<syncVars, extVars>>
    \/ Http200RateLimit /\ FetchStep /\ UNCHANGED <<syncVars, extVars>>
    \/ Http200OtherError /\ FetchStep /\ UNCHANGED <<syncVars, extVars>>
    \/ HttpRetryable /\ FetchStep /\ UNCHANGED <<syncVars, extVars>>
    \/ HttpFatal /\ FetchStep /\ UNCHANGED <<syncVars, extVars>>
    \/ FetchReturned /\ UNCHANGED <<syncVars, extVars>>
    \/ FetchRaised /\ UNCHANGED <<syncVars, extVars>>

SpecDM == InitDM /\ [][NextDM]_vars

cmFrame == <<pageVars, syncVars, dmVars, errVars, queryVars, ovVars, lgVars>>

InitCM == InitSyncIdle /\ InitPageIdle /\ InitDmIdle /\ InitExtIdle

NextCM ==
    \/ \E r \in CmRepos : GetCachedData(r) /\ UNCHANGED cmFrame
    \/ \E r \in CmRepos : \E d \in CmData :
           UpdateCache(r, d) /\ UNCHANGED cmFrame
    \/ ClearCache /\ UNCHANGED cmFrame
    \/ CorruptCacheFile /\ UNCHANGED cmFrame
    \/ \E t \in CmTimes : CmTick(t) /\ UNCHANGED cmFrame

SpecCM == InitCM /\ [][NextCM]_vars

errFrame == <<pageVars, dmVars, cmVars, queryVars, ovVars, lgVars>>

NextErr ==
    \/ \E uc \in BOOLEAN : \E elapsed \in ClockSteps \cup {0} :
           BeginRun(uc, elapsed) /\ error_replies' = {} /\ UNCHANGED errFrame
    \/ \E i \in RepoIds : Acquire(i) /\ UNCHANGED <<errFrame, errVars>>
    \/ \E i \in RepoIds : BranchReply(i) /\ UNCHANGED <<errFrame, errVars>>
    \/ \E i \in RepoIds : CommitReply(i) /\ UNCHANGED <<errFrame, errVars>>
    \/ \E i \in RepoIds : NextBranch(i) /\ UNCHANGED <<errFrame, errVars>>
    \/ \E i \in RepoIds : FinishRepo(i) /\ UNCHANGED <<errFrame, errVars>>
    \/ Return /\ UNCHANGED <<errFrame, errVars>>
    \/ \E i \in RepoIds : \E errors \in OtherErrors :
           BranchReplyError(i, errors) /\ UNCHANGED errFrame
    \/ \E i \in RepoIds : \E errors \in OtherErrors :
           CommitReplyError(i, errors) /\ UNCHANGED errFrame

SpecErr == Init /\ [][NextErr]_vars

\* ------------------------------------------- one call of fetch_graphql_query
\* line 223: the budgets a caller can pass
RetryBudgets == 1..DefaultRetriesCount

\* A call of fetch_graphql_query with a budget of the caller's choice.
InitQuery ==
    /\ InitSyncIdle
    /\ InitDmIdle
    /\ InitExtIdle
    /\ \E n \in 1..MaxPages : \E e \in 0..n :
           server = ServerPages(n, [k \in 1..n |->
                                       IF k = e THEN 0 ELSE MaxNodes])
    /\ errBudget \in 0..MaxErrors
    /\ pg_pc = "first"
    /\ page_list = <<>>
    /\ page_info = [hasNextPage |-> FALSE]
    /\ pagination = NoCursor
    /\ attempt = 0
    /\ retries_count \in RetryBudgets
    /\ requests = <<>>
    /\ sawError = FALSE
    /\ response = NoResponse
    /\ wait_time = 0
    /\ slept = 0
    /\ call_requests = 0
    /\ page_calls = 0

\* lines 239-258: the call has returned or raised
query_ended == response.kind \notin {"none", "retryable"} \/ pg_pc = "raised"

\* lines 252-255: the retry waited the exponential backoff
backoff_counted ==
    backoff_waits' =
        IF /\ response'.kind = "retryable"
           /\ pg_pc' # "raised"
           /\ ~(response'.status = 403 /\ response'.header.present)
        THEN backoff_waits + 1
        ELSE backoff_waits

queryFrame ==
    <<syncVars, dmVars, cmVars, errVars, ovVars, lgVars>>

QueryStep == ~query_ended /\ backoff_counted /\ UNCHANGED queryFrame

NextQuery ==
    \/ Http200Page /\ QueryStep
    \/ Http200Malformed /\ QueryStep
    \/ Http200RateLimit /\ QueryStep
    \/ Http200OtherError /\ QueryStep
    \/ HttpRetryable /\ QueryStep
    \/ HttpFatal /\ QueryStep

SpecQuery == InitQuery /\ [][NextQuery]_vars

\* The tasks' own variables and those of the other parts stay as they are.
ovFrame == <<pageVars, syncVars, cmVars, errVars, queryVars, lgVars, dm_tasks,
             dm_repo, dm_pc, dm_key, dm_branch_data, dm_bi, dm_posts,
             returned_calls>>

InitOverlap == InitSyncIdle /\ InitPageIdle /\ InitDmIdle /\ InitExtIdle

NextOverlap ==
    \/ \E c \in OvCallers : \E key \in OvKeys :
           OvCall(c, key) /\ UNCHANGED ovFrame
    \/ \E c \in OvCallers : \E res \in OvResults :
           OvFetchReturns(c, res) /\ UNCHANGED ovFrame
    \/ \E c \in OvCallers : OvFetchRaises(c) /\ UNCHANGED ovFrame

SpecOverlap == InitOverlap /\ [][NextOverlap]_vars

lgFrame == <<pageVars, syncVars, dmVars, cmVars, errVars, queryVars, ovVars>>

InitLegacy ==
    /\ InitSyncIdle /\ InitPageIdle /\ InitDmIdle
    /\ InitCmIdle /\ error_replies = {} /\ backoff_waits = 0 /\ InitOvIdle
    /\ InitLg

NextLegacy ==
    \/ RunLegacy /\ UNCHANGED lgFrame
    \/ RunNew /\ UNCHANGED lgFrame

SpecLegacy == InitLegacy /\ [][NextLegacy]_vars

\* ================================================================ claims
TtlSeconds == CacheTtlDays * SecondsPerDay
InputRepos == Range(repositories)
Considered == {i \in InputRepos : ~Ignored(i)}
NoDuplicates(s) == \A j, k \in DOMAIN s : s[j] = s[k] => j = k

RECURSIVE AllNodes(_)
AllNodes(srv) ==
    IF srv = <<>> THEN <<>> ELSE Head(srv).nodes \o AllNodes(Tail(srv))

\* C1: with no error response, a paginated fetch over N >= 1 pages of which
\* only the last has hasNextPage = false returns the concatenation of the
\* pages' nodes in page order and issues exactly N requests.
C1_PaginatedConcatenation ==
    (pg_pc = "returned" /\ ~sawError) =>
        /\ page_list = AllNodes(server)
        /\ Len(requests) = Len(server)

C1_Witness ==
    /\ pg_pc = "returned"
    /\ ~sawError
    /\ Len(server) >= 3
    /\ \A k \in DOMAIN server : server[k].nodes # <<>>

\* Whether the index the run loaded makes a repository name stale: no entry,
\* an entry that is no timestamp, or one strictly older than now - TTL.
StaleInIndex(repo_name) ==
    IF repo_name \notin DOMAIN loaded_index THEN TRUE
    ELSE IF loaded_index[repo_name].kind # "iso" THEN TRUE
    ELSE loaded_index[repo_name].t < now - TtlSeconds

\* C2: with the cache enabled, a repository that is neither ignored nor listed
\* in the checkpoint is classified "fetch" exactly when it has no index entry,
\* an unparseable one, or one strictly older than now - TTL, and "reuse"
\* otherwise.
C2_TtlClassification ==
    (phase # "idle" /\ use_cache) =>
        \A i \in Considered :
            Repo(i).name \notin Range(loaded_checkpoint) =>
                /\ StaleInIndex(Repo(i).name) <=> i \in Range(repos_to_fetch)
                /\ ~StaleInIndex(Repo(i).name) <=> i \in Range(repos_to_load)

\* A run that fetches a repository cached TTL + 1 s ago, another that reuses
\* one cached exactly TTL ago, are both reached; the witness is the first.
C2_Witness ==
    /\ phase = "fetching"
    /\ use_cache
    /\ \E i \in Considered :
          /\ Repo(i).name \notin Range(loaded_checkpoint)
          /\ Repo(i).name \in DOMAIN loaded_index
          /\ loaded_index[Repo(i).name].kind = "iso"
          /\ loaded_index[Repo(i).name].t = now - TtlSeconds - 1
          /\ i \in Range(repos_to_fetch)
    /\ \E j \in Considered :
          /\ Repo(j).name \in DOMAIN loaded_index
          /\ loaded_index[Repo(j).name].kind = "garbage"
          /\ j \in Range(repos_to_fetch)

\* C3: with the cache enabled, a repository listed in the loaded checkpoint
\* is classified "reuse" and no network request is issued for it in the run,
\* whatever the index says about it.
C3_CheckpointReuse ==
    (phase # "idle" /\ use_cache) =>
        \A i \in Considered :
            Repo(i).name \in Range(loaded_checkpoint) =>
                /\ i \in Range(repos_to_load)
                /\ i \notin Range(repos_to_fetch)
                /\ i \notin net_requests

C3_Witness ==
    /\ phase = "returned"
    /\ use_cache
    /\ \E i \in Considered :
          /\ Repo(i).name \in Range(loaded_checkpoint)
          /\ Repo(i).name \notin DOMAIN loaded_index
    /\ \E j \in Considered :
          /\ Repo(j).name \in Range(loaded_checkpoint)
          /\ Repo(j).name \in DOMAIN loaded_index
          /\ StaleInIndex(Repo(j).name)

\* What a fetch of repository i alone computes: its own yearly and date data.
RECURSIVE fetch_branches(_, _, _, _)
fetch_branches(i, branches, ryd, rdd) ==
    IF branches = <<>> THEN <<ryd, rdd>>
    ELSE LET folded == process_branch(Repo(i), Head(branches),
                           RemoteCommits(i, Head(branches)), ryd, rdd)
         IN fetch_branches(i, Tail(branches), folded[1], folded[2])

FetchedData(i) == fetch_branches(i, RemoteBranches(i), EmptyMap, EmptyMap)

\* The YearlyBucket of the partition in which every repository is fetched.
RECURSIVE AllFetchedYearly(_)
AllFetchedYearly(S) ==
    IF S = {} THEN EmptyMap
    ELSE LET i == CHOOSE i \in S : TRUE
         IN merge_yearly(AllFetchedYearly(S \ {i}), FetchedData(i)[1])

\* No other repository of the input has the name of repository i.
NameUnique(i) == \A j \in InputRepos : Repo(j).name = Repo(i).name => j = i

\* A reused repository reads the CacheRecord its own fetch persisted.
ReusedFromOwnRecord(i) ==
    /\ get_repo_cache_path(Repo(i).name) \in DOMAIN cache_files
    /\ written_by[get_repo_cache_path(Repo(i).name)] = i
    /\ NameUnique(i)

\* C4: the YearlyBucket a run returns is the same for every partition of the
\* repositories into fetched and reused ones (each reused one read back from
\* the CacheRecord its earlier fetch persisted): it is the bucket of the
\* partition that fetches them all.
C4_PartitionIndependentYearly ==
    (/\ phase = "returned"
     /\ \A i \in Considered : task[i].pc = "done" \/ i \in Range(repos_to_load)
     /\ \A i \in Range(repos_to_load) : ReusedFromOwnRecord(i))
    => yearly_data = AllFetchedYearly(Considered)

\* C5: the DateIndex entry a run returns for a repository it reused from the
\* cache equals the entry the fetching run returned for it:
\* branchName -> commitId -> committedDate.
C5_DateIndexRoundTrip ==
    (phase = "returned" /\ use_cache) =>
        \A i \in Range(repos_to_load) :
            ReusedFromOwnRecord(i) =>
                /\ Repo(i).name \in DOMAIN date_data
                /\ date_data[Repo(i).name] = FetchedData(i)[2][Repo(i).name]

\* The commits the endpoint holds, one per (repository, branch, position).
CommitInstances(S) ==
    UNION {UNION {{<<i, b, k>> :
                      k \in 1..Len(RemoteCommits(i, RemoteBranches(i)[b]))} :
                  b \in 1..Len(RemoteBranches(i))} : i \in S}
CommitAt(x) == RemoteCommits(x[1], RemoteBranches(x[1])[x[2]])[x[3]]
BucketOf(x) == <<CommitAt(x).committedDate.year,
                 Quarter(CommitAt(x).committedDate.month),
                 Repo(x[1]).primaryLanguage>>

RECURSIVE SumOver(_, _)
SumOver(X, field) ==
    IF X = {} THEN 0
    ELSE LET x == CHOOSE x \in X : TRUE
         IN CommitAt(x)[field] + SumOver(X \ {x}, field)

\* The (year, quarter, language) keys a yearly dictionary holds.
YearlyKeys(yd) ==
    UNION {UNION {{<<y, q, l>> : l \in DOMAIN yd[y][q]} : q \in DOMAIN yd[y]} :
           y \in DOMAIN yd}

AllFetchedNow ==
    /\ phase = "returned"
    /\ \A i \in Considered : task[i].pc = "done"

\* C6: after a run in which every repository that is not ignored was fetched,
\* YearlyBucket[y][q][L] is the sum of additions and of deletions over all
\* commits of all branches of all repositories of language L dated in year y
\* and quarter q, and DateIndex has exactly one key per repository that has
\* at least one branch.
C6_FetchedAggregate ==
    AllFetchedNow =>
        LET X == {x \in CommitInstances(Considered) :
                     Repo(x[1]).primaryLanguage # NoLanguage}
        IN /\ YearlyKeys(yearly_data) =
                  {<<IntKey(BucketOf(x)[1]), IntKey(BucketOf(x)[2]),
                     BucketOf(x)[3]>> : x \in X}
           /\ \A x \in X :
                  yearly_data[IntKey(BucketOf(x)[1])][IntKey(BucketOf(x)[2])]
                             [BucketOf(x)[3]]
                  = [add |-> SumOver({z \in X : BucketOf(z) = BucketOf(x)},
                                     "additions"),
                     del |-> SumOver({z \in X : BucketOf(z) = BucketOf(x)},
                                     "deletions")]
           /\ Cardinality(DOMAIN date_data) =
                  Cardinality({i \in Considered : RemoteBranches(i) # <<>>})

\* C7: at every moment of a run, the tasks between issuing their branch query
\* and finishing their cache write are at most the concurrency limit, and
\* the free slots and these tasks add up to the limit (a task enters only
\* by taking a slot that is free).
C7_BoundedConcurrency ==
    /\ Cardinality({i \in RepoIds : InSection(task[i])}) <= max_concurrency
    /\ sem >= 0
    /\ phase = "fetching" =>
           sem + Cardinality({i \in RepoIds : InSection(task[i])})
               = max_concurrency

C7_Witness ==
    /\ phase = "fetching"
    /\ Cardinality({i \in RepoIds : InSection(task[i])}) = max_concurrency
    /\ \E i \in RepoIds : task[i].pc = "wait_sem"
    /\ \E i \in RepoIds : task[i].pc = "done"

\* C8: whenever a run returns normally, with the cache enabled or not, the
\* persisted checkpoint has an empty processed_repos.
C8_CheckpointClearedOnReturn ==
    phase = "returned" => get_checkpoint.processed_repos = <<>>

C10_FailureIsolated ==
    ~(/\ phase = "raised"
      /\ \E i \in RepoIds : task[i].pc = "failed"
      /\ \E j \in RepoIds : task[j].pc = "done" /\ RemoteBranches(j) # <<>>)

\* ---------------------------------------------------------------- C11
IndexEntries(f) == IF isfile(f) /\ parses(f) THEN f[1] ELSE EmptyMap
CheckpointNames(f) ==
    IF isfile(f) /\ parses(f) THEN Range(f[1].processed_repos) ELSE {}
SameAt(f, g, k) ==
    /\ (k \in DOMAIN f) = (k \in DOMAIN g)
    /\ k \in DOMAIN f => f[k] = g[k]

\* What a failed fetch leaves on the disk for the repository's name: nothing
\* that the run's start did not hold already.
FailedLeftNoTrace(i) ==
    LET name == Repo(i).name
    IN /\ SameAt(cache_files, disk_before[1], get_repo_cache_path(name))
       /\ SameAt(IndexEntries(index_file), IndexEntries(disk_before[2]), name)
       /\ name \in CheckpointNames(checkpoint_file)
              => name \in CheckpointNames(disk_before[3])

\* C11: a repository whose fetch raised has, in that run, no CacheRecord
\* written, no index entry updated and no name appended to the checkpoint, and
\* the next run with the cache classifies it as to fetch.
C11_FailedNotRecorded ==
    /\ phase \in {"fetching", "raised"} =>
           \A i \in RepoIds : task[i].pc = "failed" => FailedLeftNoTrace(i)
    /\ (phase \in {"fetching", "returned", "raised"} /\ use_cache) =>
           \A i \in failed_before : i \in Range(repos_to_fetch)

\* ---------------------------------------------------------------- C12
\* C12: a run with the cache that returns has not left out a repository it
\* classified as reused: when the CacheRecord could not be read the repository
\* was fetched, so every reused repository that has branches is in DateIndex.
C12_UnreadableRecordRefetched ==
    (phase = "returned" /\ use_cache) =>
        \A i \in Range(repos_to_load) :
            RemoteBranches(i) # <<>> =>
                Repo(i).name \in DOMAIN date_data

\* ---------------------------------------------------------------- C13
\* C13: a run with USE_CACHE=false fetches every repository that is not
\* ignored and leaves the CacheRecords, the index and the checkpoint as they
\* were when it began.
C13_NoCacheRunLeavesDisk ==
    (phase = "returned" /\ ~use_cache) =>
        /\ \A i \in Considered : i \in net_requests
        /\ cache_reads = {}
        /\ <<cache_files, index_file, checkpoint_file>> = disk_before

\* ---------------------------------------------------------------- C14
NotAPage == <<(<<>>), [hasNextPage |-> FALSE]>>

\* C14: for a response without the {nodes, pageInfo} pair where the parser
\* descends, find_pagination_and_data_list gives ([], {hasNextPage: false}),
\* and a paginated fetch that receives such a response returns at once with
\* the nodes of the pages it had received before.
C14_MalformedFailsSoft ==
    /\ \A body \in MalformedBodies :
           find_pagination_and_data_list(body) = NotAPage
    /\ response.kind = "malformed" =>
           /\ pg_pc = "returned"
           /\ page_list = AllNodes(SubSeq(server, 1, pagination))

C14_Witness ==
    /\ response.kind = "malformed"
    /\ pg_pc = "returned"
    /\ pagination > 0
    /\ page_list # <<>>
    /\ Len(server) > pagination + 1

\* ---------------------------------------------------------------- C15
\* C15: a fetch_graphql_query call with retry budget r issues at most r + 1
\* requests; an HTTP 200 ends the call, each 403 or 502 with budget left is
\* retried and takes one unit of the budget, a 403 or 502 with no budget left
\* raises, and every other status raises at once.
C15_RetryBudget ==
    /\ call_requests <= DefaultRetriesCount + 1
    /\ response.status = 200 =>
           /\ retries_count = DefaultRetriesCount
           /\ response.kind # "retryable"
    /\ response.status \in {403, 502} =>
           IF call_requests <= DefaultRetriesCount
           THEN /\ pg_pc # "raised"
                /\ retries_count = DefaultRetriesCount - call_requests
           ELSE /\ pg_pc = "raised"
                /\ retries_count = 0
    /\ response.status \notin {0, 200, 403, 502} => pg_pc = "raised"

C15_Witness ==
    /\ pg_pc = "raised"
    /\ response.status = 403
    /\ response.header.present
    /\ call_requests = DefaultRetriesCount + 1

\* ---------------------------------------------------------------- C16
\* The errors that are rate-limit errors: type RATE_LIMIT, or "rate limit" in
\* the message in any letter case.
RateLimitErrors ==
    {RateLimitError, RateLimitByMessage, RateLimitResetUtc,
     RateLimitResetNaive, RateLimitResetPast, RateLimitTryAgain}

HasRateLimit(errors) == \E k \in DOMAIN errors : errors[k] \in RateLimitErrors

\* C16: a 200 response whose errors[] holds a rate-limit error is not returned
\* to the paginator: after a wait the same request is pending again (or the
\* attempts are used up and the call raises); a 200 response whose errors are
\* all of another kind is returned as it is, without a wait.
C16_RateLimitNeverReturned ==
    /\ (response.status = 200 /\ HasRateLimit(response.errors)) =>
           /\ ~response.returned
           /\ slept > 0
           /\ pg_pc \in {"first", "next", "raised"}
           /\ pg_pc = "raised" => attempt = MaxRetries
    /\ (response.status = 200 /\ response.errors # <<>>
           /\ ~HasRateLimit(response.errors)) =>
           /\ response.returned
           /\ slept = 0
           /\ attempt = 0
           /\ pg_pc = "returned"

C16_Witness ==
    /\ response.status = 200
    /\ response.errors = <<OtherError, RateLimitByMessage>>
    /\ ~response.returned
    /\ pg_pc = "next"
    /\ slept > 0

\* ---------------------------------------------------------------- C17
FirstRateLimitError(errors) ==
    errors[CHOOSE k \in DOMAIN errors :
               /\ errors[k] \in RateLimitErrors
               /\ \A j \in 1..(k - 1) : errors[j] \notin RateLimitErrors]

\* The wait by priority: the time until resetAt when it is an ISO-8601
\* timestamp (at least 1 s), else the N of "try again in N seconds", else 60.
WaitByPriority(error) ==
    IF error.resetAt.kind \in {"utc", "naive"}
    THEN (IF error.resetAt.in >= 1 THEN error.resetAt.in ELSE 1)
    ELSE IF try_again_seconds(error.message) > 0
         THEN try_again_seconds(error.message)
         ELSE 60

\* C17: the wait chosen for a rate-limit error is the time until resetAt if
\* resetAt is a valid ISO-8601 timestamp (at least 1 s), otherwise the N of
\* "try again in N seconds" in the message, otherwise 60 seconds.
C17_WaitPriority ==
    (response.status = 200 /\ HasRateLimit(response.errors)) =>
        wait_time = WaitByPriority(FirstRateLimitError(response.errors))

\* ---------------------------------------------------------------- C18
\* C18: after a rate-limit error whose resetAt is 30 s ahead, the time from
\* the response to the retry request is at least 29 s and less than 35 s.
C18_ResetAtBackoffWindow ==
    (/\ response.status = 200
     /\ HasRateLimit(response.errors)
     /\ FirstRateLimitError(response.errors).resetAt.kind \in {"utc", "naive"}
     /\ FirstRateLimitError(response.errors).resetAt.in = 30
     /\ pg_pc \in {"first", "next"}) =>
        (slept >= 29 /\ slept < 35)

IgnoredRepos == {i \in InputRepos : Repo(i).name \in env.IGNORED_REPOS}

\* C20: for a repository whose name is in the ignore-list, a run (with the
\* cache or without) issues no request, reads no CacheRecord, writes no
\* CacheRecord and no index entry, does not append the name to the
\* checkpoint and adds nothing to YearlyBucket or DateIndex.
C20_IgnoredUntouched ==
    phase \in {"fetching", "returned", "raised"} =>
        /\ \A i \in IgnoredRepos :
               LET name == Repo(i).name
               IN /\ i \notin net_requests
                  /\ name \notin cache_reads
                  /\ get_repo_cache_path(name) \in DOMAIN cache_files =>
                         SameAt(cache_files, disk_before[1],
                                get_repo_cache_path(name))
                  /\ name \in DOMAIN IndexEntries(index_file) =>
                         SameAt(IndexEntries(index_file),
                                IndexEntries(disk_before[2]), name)
                  /\ name \in CheckpointNames(checkpoint_file) =>
                         name \in CheckpointNames(disk_before[3])
                  /\ name \notin DOMAIN date_data
                  /\ task[i].ryd = EmptyMap
        /\ (/\ phase = "returned"
            /\ \A i \in InputRepos \ IgnoredRepos : task[i].pc = "done") =>
               yearly_data = AllFetchedYearly(InputRepos \ IgnoredRepos)

C20_Witness ==
    /\ phase = "returned"
    /\ use_cache
    /\ 2 \in IgnoredRepos
    /\ get_repo_cache_path("b") \in DOMAIN cache_files
    /\ "b" \in DOMAIN IndexEntries(index_file)
    /\ 1 \in net_requests
    /\ yearly_data # EmptyMap

\* ---------------------------------------------------------------- C21
\* C21: the step that processes a repository whose branch list is empty ends
\* the repository's task and leaves YearlyBucket, DateIndex, every CacheRecord
\* and the CacheIndex as they were; no commit query is issued for it.
C21_NoBranchesFrame ==
    [][\A i \in RepoIds :
          (/\ task[i].pc = "branches"
           /\ RemoteBranches(i) = <<>>
           /\ task'[i].pc \notin {"branches", "failed", "cancelled"}) =>
              /\ task'[i] = [NoTask EXCEPT !.pc = "done"]
              /\ yearly_data' = yearly_data
              /\ date_data' = date_data
              /\ cache_files' = cache_files
              /\ index_file' = index_file
              /\ cache_index' = cache_index
              /\ net_requests' = net_requests]_vars

C21_Witness ==
    /\ phase = "fetching"
    /\ task[4].pc = "done"
    /\ task[1].pc = "done"
    /\ yearly_data # EmptyMap
    /\ "c" \notin DOMAIN date_data
    /\ get_repo_cache_path("c") \notin DOMAIN cache_files
    /\ get_repo_cache_path("a") \in DOMAIN cache_files

\* ---------------------------------------------------------------- C22
\* The DateIndex entry of a branch: the date of each of its commits.
BranchDates(i, branch) ==
    LET commit_data == RemoteCommits(i, branch)
    IN [oid \in {commit_data[k].oid : k \in DOMAIN commit_data} |->
           LET k == CHOOSE k \in DOMAIN commit_data : commit_data[k].oid = oid
           IN commit_data[k].committedDate]

\* C22: the step that ends the processing of a repository whose
\* primaryLanguage is null leaves YearlyBucket as it was and leaves every
\* branch of the repository in DateIndex with the date of each of its commits.
C22_NoLanguageFrame ==
    [][\A i \in RepoIds :
          (/\ task[i].pc = "sleep"
           /\ task'[i].pc = "done"
           /\ Repo(i).primaryLanguage = NoLanguage) =>
              /\ yearly_data' = yearly_data
              /\ task[i].ryd = EmptyMap
              /\ Repo(i).name \in DOMAIN date_data'
              /\ \A k \in DOMAIN RemoteBranches(i) :
                     LET branch == RemoteBranches(i)[k]
                     IN /\ branch \in DOMAIN date_data'[Repo(i).name]
                        /\ date_data'[Repo(i).name][branch]
                               = BranchDates(i, branch)]_vars

C22_Witness ==
    /\ phase = "fetching"
    /\ task[3].pc = "done"
    /\ task[1].pc = "done"
    /\ yearly_data # EmptyMap
    /\ date_data["a"]["main"] = BranchDates(3, "main")
    /\ get_repo_cache_path("a") \in DOMAIN cache_files
    /\ cache_files[get_repo_cache_path("a")].yearly_data = EmptyMap

\* ---------------------------------------------------------------- C23
\* C23: when a task merges its DateIndex fragment into the aggregate, merging
\* the same fragment once more would change nothing, and each branch of the
\* fragment has in the aggregate exactly the fragment's entry, whatever the
\* aggregate held for that (repo, branch) before.
C23_MergeDateIndexIdempotent ==
    [][\A i \in RepoIds :
          (task[i].pc = "sleep" /\ task'[i].pc = "done") =>
              LET name == Repo(i).name
                  fragment == task[i].rdd
              IN /\ date_data' = merge_date_data(date_data, name, fragment)
                 /\ merge_date_data(date_data', name, fragment) = date_data'
                 /\ \A branch \in DOMAIN fragment[name] :
                        date_data'[name][branch] = fragment[name][branch]]_vars

C23_Witness ==
    /\ phase = "fetching"
    /\ task[1].pc = "done"
    /\ task[3].pc = "done"
    /\ written_by[get_repo_cache_path("a")] = 3
    /\ date_data["a"]["main"] = BranchDates(3, "main")
    /\ BranchDates(1, "main") # BranchDates(3, "main")
    /\ "dev" \in DOMAIN date_data["a"]

\* ---------------------------------------------------------------- C24
\* A CacheRecord file whose text is not a complete record.
Partial(files, cache_path) ==
    cache_path \in DOMAIN files /\ "kind" \in DOMAIN files[cache_path]

\* C24: wherever the process is ended, no CacheRecord file is partially
\* written: a file that does not hold a complete record was already so when
\* the run began.
C24_CacheRecordNeverPartial ==
    \A cache_path \in DOMAIN cache_files :
        Partial(cache_files, cache_path) => Partial(disk_before[1], cache_path)

\* ---------------------------------------------------------------- C25
\* C25: when a run with the cache was ended by the termination of the process
\* and the next run with the cache begins within the TTL, every repository
\* whose task had ended before the termination is reused and not fetched.
C25_CompletedReusedAfterTermination ==
    [][(/\ phase = "killed"
        /\ phase' = "fetching"
        /\ use_cache
        /\ use_cache'
        /\ now' - now <= TtlSeconds) =>
           \A i \in RepoIds :
               task[i].pc = "done" =>
                   /\ i \in Range(repos_to_load')
                   /\ i \notin Range(repos_to_fetch')]_vars

\* ---------------------------------------------------------------- C26
\* The names the run has added to the persisted checkpoint: those of the list
\* it has written that it had not loaded.
AddedToCheckpoint ==
    IF checkpoint_file = disk_before[3] THEN {}
    ELSE CheckpointNames(checkpoint_file) \ Range(loaded_checkpoint)

\* C26: at every point of a run, every name the run has added to the persisted
\* checkpoint has a readable CacheRecord and an entry in the persisted index.
C26_CheckpointedHasRecord ==
    phase \in {"fetching", "returned", "raised", "killed"} =>
        \A name \in AddedToCheckpoint :
            /\ get_cached_repo_data(name) # NoFile
            /\ name \in DOMAIN IndexEntries(index_file)

\* ---------------------------------------------------------------- C27
\* The index entries this run has persisted: those of the persisted index that
\* the index did not hold, or held with another time, when the run began.
PersistedByRun ==
    {name \in DOMAIN IndexEntries(index_file) :
        ~SameAt(IndexEntries(index_file), IndexEntries(disk_before[2]), name)}

\* The CacheRecord of the name is complete and was written by this run.
RecordWritten(name) ==
    /\ get_cached_repo_data(name) # NoFile
    /\ get_cached_repo_data(name)[1].cached_at = IsoFormat(now)

\* C27: at every point of a run, and wherever the process is ended, every
\* repository whose index entry this run has persisted has its CacheRecord
\* written by this run.
C27_RecordBeforeIndexEntry ==
    phase \in {"fetching", "returned", "killed"} =>
        \A name \in PersistedByRun : RecordWritten(name)

\* ---------------------------------------------------------------- C28
\* C28: in whatever order the tasks of a run completed, when all have ended
\* the persisted index holds this run's entry for every repository whose
\* CacheRecord the run wrote, and the persisted checkpoint lists the name of
\* every completed repository, each name once.
C28_NoLostUpdate ==
    (/\ phase = "fetching"
     /\ \A i \in RepoIds : task[i].pc \in {"none", "skipped", "done"}) =>
        /\ \A i \in RepoIds :
               (task[i].pc = "done" /\ RemoteBranches(i) # <<>>) =>
                   /\ RecordWritten(Repo(i).name)
                   /\ Repo(i).name \in DOMAIN IndexEntries(index_file)
                   /\ IndexEntries(index_file)[Repo(i).name] = IsoFormat(now)
        /\ \A i \in RepoIds :
               task[i].pc = "done" =>
                   Repo(i).name \in CheckpointNames(checkpoint_file)
        /\ (\E i \in RepoIds : task[i].pc = "done") =>
               NoDuplicates(checkpoint_file[1].processed_repos)

C28_Witness ==
    /\ phase = "fetching"
    /\ \A i \in {1, 2, 4} : task[i].pc = "done"
    /\ max_concurrency >= 2
    /\ {"a", "b"} \subseteq DOMAIN IndexEntries(index_file)
    /\ Len(checkpoint_file[1].processed_repos) = 3
    /\ checkpoint_file[1].processed_repos[1] = "b"
    /\ checkpoint_file[1].processed_repos[3] = "a"

\* The call of the running task that returned the commit list of branch b.
CommitListReturned(b) ==
    \E k \in DOMAIN returned_calls :
        /\ returned_calls[k].task = dm_tasks
        /\ returned_calls[k].bi = b
        /\ returned_calls[k].key = CommitListKey(dm_repo, dm_branch_data[b])
        /\ ~returned_calls[k].has_next

\* A step that posts a request: the request carries the cursor of the query
\* being made; a query that was not posted before is the first of its call
\* and carries no cursor, or follows a page that arrived with hasNextPage and
\* carries that page's endCursor; and a request of the commit query of branch
\* b > 1 follows the return of the commit query of branch b - 1.
IssuedInOrder ==
    dm_posts' > dm_posts =>
        /\ dm_pc = "fetch"
        /\ requests' # <<>>
        /\ pagination = requests'[Len(requests')]
        /\ Len(requests') > Len(requests) =>
               IF requests = <<>>
               THEN requests' = <<NoCursor>>
               ELSE /\ response.kind = "page"
                    /\ response.returned
                    /\ page_info.hasNextPage
                    /\ page_info.endCursor =
                           ServedPage(server, requests[Len(requests)]).endCursor
                    /\ requests' = Append(requests, page_info.endCursor)
        /\ (dm_key[1] = "repo_commit_list" /\ dm_bi > 1) =>
               CommitListReturned(dm_bi - 1)

\* C29: within one repository task a request of the commit query of branch
\* i+1 is issued only after the commit query of branch i has returned with
\* all its pages; within one paginated query the first request carries no
\* cursor and the request for page k+1 is issued only after page k arrived
\* and carries the endCursor returned with page k.
C29_SequentialQueries == [][IssuedInOrder]_vars

\* The second page of the commit list of the second branch is being
\* requested, after the commit list of the first branch returned two pages.
C29_Witness ==
    /\ dm_pc = "fetch"
    /\ dm_key[1] = "repo_commit_list"
    /\ dm_bi = 2
    /\ requests = <<NoCursor, 1>>
    /\ \E k \in DOMAIN returned_calls :
          /\ returned_calls[k].task = dm_tasks
          /\ returned_calls[k].bi = 1
          /\ returned_calls[k].network
          /\ Len(returned_calls[k].res) = 2

\* C30: a get_remote_graphql call made with the query identifier and the
\* parameters of an earlier call that has returned issues no network request
\* and returns the result the earlier call returned.
C30_Memoized ==
    \A j, k \in DOMAIN returned_calls :
        (j < k /\ returned_calls[j].key = returned_calls[k].key) =>
            /\ ~returned_calls[k].network
            /\ returned_calls[k].res = returned_calls[j].res

\* A second task repeated the branch-list call and a commit-list call of the
\* first, whose fetches had returned nodes.
C30_Witness ==
    \E j, k, m, n \in DOMAIN returned_calls :
        /\ j < k
        /\ m < n
        /\ returned_calls[j].key = returned_calls[k].key
        /\ returned_calls[j].key[1] = "repo_branch_list"
        /\ returned_calls[m].key = returned_calls[n].key
        /\ returned_calls[m].key[1] = "repo_commit_list"
        /\ returned_calls[j].network
        /\ returned_calls[m].network
        /\ returned_calls[m].res # <<>>
        /\ returned_calls[k].task = 2
        /\ returned_calls[n].task = 2

\* C31: with the cache file absent or valid, get_cached_data(r) is the data
\* of the latest update_cache(r, .) unless more than CACHE_EXPIRY has passed
\* since, and None when there was no update_cache(r, .); the entry the file
\* holds for every repository is the one its latest update_cache wrote.
C31_LatestUpdateReturned ==
    cm_file # Torn =>
        \A r \in CmRepos :
            IF r \in DOMAIN cm_updates
            THEN /\ parses(cm_file)
                 /\ r \in DOMAIN cm_file[1]
                 /\ cm_file[1][r].timestamp = cm_updates[r].timestamp
                 /\ cm_clock - cm_updates[r].timestamp <= CacheExpiry =>
                        get_cached_data(r) = Some(cm_updates[r].data)
            ELSE get_cached_data(r) = NoneValue

\* repo1 was updated twice and repo2 after it; get_cached_data("repo1"),
\* called exactly CACHE_EXPIRY after the update, returned the later data.
C31_Witness ==
    /\ cm_call.op = "get_cached_data"
    /\ cm_call.repo_name = "repo1"
    /\ cm_call.result = Some([k \in {StrKey("language")} |-> "JavaScript"])
    /\ DOMAIN cm_updates = CmRepos
    /\ cm_updates["repo1"].timestamp = 0
    /\ cm_updates["repo2"].timestamp = 1
    /\ cm_clock = CacheExpiry

\* With a cache file that is not JSON, get_cached_data returns None, and an
\* update_cache call returns and is followed by a state in which
\* get_cached_data returns its data.
CorruptFileHandled ==
    cm_file = Torn =>
        /\ \A r \in CmRepos : get_cached_data(r) = NoneValue
        /\ (cm_call'.op = "update_cache" /\ cm_call' # cm_call) =>
               /\ cm_call'.result # RaisedValue
               /\ \E r \in CmRepos :
                      /\ r = cm_call'.repo_name
                      /\ (get_cached_data(r))' = cm_call'.result

\* C32: if the cache file is not valid JSON, get_cached_data returns None
\* without raising, and a following update_cache(r, d) succeeds, after which
\* get_cached_data(r) returns d.
C32_CorruptFileTolerated == [][CorruptFileHandled]_vars

\* update_cache found the file corrupt, and the get_cached_data before it
\* had returned None; the file now holds the one entry.
C32_Witness ==
    /\ cm_call.op = "update_cache"
    /\ cm_call.found = "corrupt"
    /\ cm_call.result = Some([k \in {StrKey("language")} |-> "Python"])
    /\ parses(cm_file)
    /\ DOMAIN cm_file[1] = {cm_call.repo_name}

\* The repositories of the input whose name no other repository of it has.
UniquelyNamed == {i \in InputRepos :
                     \A j \in InputRepos \ {i} : Repo(j).name # Repo(i).name}

\* C33: a repository a query of whose task was answered with GraphQL errors
\* that are not rate limits is not recorded as complete: the run writes no
\* CacheRecord for it and does not add its name to the checkpoint.
C33_ErrorNotRecorded ==
    phase = "fetching" =>
        \A i \in error_replies \cap UniquelyNamed :
            /\ ~RecordWritten(Repo(i).name)
            /\ Repo(i).name \notin AddedToCheckpoint

\* A retry that waits the exponential backoff waits 2^k seconds, k being the
\* number of backoff waits of the call before it.
BackoffDoubles ==
    backoff_waits' = backoff_waits + 1 => slept' = 2 ^ backoff_waits

\* C34: in fetch_graphql_query the k-th backoff wait of a call (k = 0 for the
\* first retry after a 502 or a 403 without reset header) is 2^k seconds, for
\* every initial retry budget in 1..10.
C34_BackoffPowersOfTwo == [][BackoffDoubles]_vars

\* C35: while a run fetches, and after a fetch raised, the YearlyBucket is
\* the sum over the repositories whose task completed, and the DateIndex has
\* no key for a repository whose fetch raised unless a completed repository
\* has its name: a fetch that raised after some branches left nothing in them.
C35_FailedLeavesNoData ==
    phase \in {"fetching", "raised"} =>
        LET Done == {i \in RepoIds : task[i].pc = "done"}
        IN /\ yearly_data = AllFetchedYearly(Done)
           /\ \A i \in RepoIds :
                  (/\ task[i].pc = "failed"
                   /\ \A j \in Done : Repo(j).name # Repo(i).name)
                  => Repo(i).name \notin DOMAIN date_data

\* The fetch of u1/a raised at the commit query of its second branch, with
\* the commits of the first branch counted, after u1/b completed.
C35_Witness ==
    /\ phase = "raised"
    /\ task[1].pc = "failed"
    /\ task[1].bi = 2
    /\ task[1].ryd # EmptyMap
    /\ task[2].pc = "done"
    /\ yearly_data # EmptyMap

\* Repository i shares its name with another repository of the input.
NameShared(i) == i \in Considered /\ ~NameUnique(i)

\* Every commit the fetch of repository i produced is in the DateIndex.
CommitsInDateIndex(i) ==
    LET name == Repo(i).name
        own == FetchedData(i)[2]
    IN name \in DOMAIN own =>
           /\ name \in DOMAIN date_data
           /\ \A b \in DOMAIN own[name] :
                  /\ b \in DOMAIN date_data[name]
                  /\ \A oid \in DOMAIN own[name][b] :
                         oid \in DOMAIN date_data[name][b]

\* C36: for input repositories with different owners and one name, a run
\* that fetched them all returns a DateIndex holding the commits of each, and
\* a run that reused them all returns the YearlyBucket their own fetches
\* produced: their records and entries do not overwrite one another.
C36_SameNameKeptApart ==
    LET Shared == {i \in RepoIds : NameShared(i)}
    IN phase = "returned" =>
           /\ (\A i \in Shared : task[i].pc = "done")
                  => \A i \in Shared : CommitsInDateIndex(i)
           /\ (/\ Shared # {}
               /\ failed_before = {}
               /\ \A i \in Considered : i \in Range(repos_to_load)
               /\ \A i \in Shared :
                      get_repo_cache_path(Repo(i).name) \in DOMAIN cache_files)
                  => yearly_data = AllFetchedYearly(Considered)

\* C37: of two get_remote_graphql calls for one key of which the second began
\* before the first had returned, at most one performed a network fetch, and
\* when both have returned they returned the same result.
C37_OverlapSingleFetch ==
    \A c, d \in OvCallers :
        (/\ c # d
         /\ ov_call[c].key = ov_call[d].key
         /\ ov_call[c].overlapped
         /\ ov_call[d].overlapped)
        => /\ ~(ov_call[c].fetched /\ ov_call[d].fetched)
           /\ (ov_call[c].pc = "returned" /\ ov_call[d].pc = "returned")
                  => ov_call[c].res = ov_call[d].res

\* The cursors of the queries of a fetch that asks for each page once, in
\* page order: none for the first page, then the endCursor of each page.
RECURSIVE CursorsOf(_)
CursorsOf(n) ==
    IF n = 0 THEN <<>> ELSE Append(CursorsOf(n - 1), n - 1)

\* C38: a fetch that met only clean pages and rate-limit errors, and whose
\* retries stayed within the attempts, returns the nodes of every page once
\* and in page order, having asked for every page once, in page order.
C38_RetriesKeepPages ==
    pg_pc = "returned" =>
        /\ page_list = AllNodes(server)
        /\ requests = CursorsOf(Len(server))

\* A fetch over three pages returned after two runs of rate-limit errors, the
\* last of them on a page after the first.
C38_Witness ==
    /\ pg_pc = "returned"
    /\ sawError
    /\ Len(server) = MaxPages
    /\ \A k \in DOMAIN server : server[k].nodes # <<>>
    /\ errBudget = 0
    /\ Len(page_list) = MaxPages * MaxNodes

\* C39: run on empty aggregates for one repository and one remote content,
\* the legacy function and the caching function leave the same YearlyBucket
\* and the same DateIndex.
C39_LegacyEquivalent ==
    (lg_legacy # NotRun /\ lg_new # NotRun) => lg_legacy = lg_new

\* Both functions ran for a repository with a language and two branches that
\* hold commits, and left counts and dates.
C39_Witness ==
    /\ lg_legacy # NotRun
    /\ lg_new # NotRun
    /\ lg_repo.primaryLanguage # NoLanguage
    /\ Len(lg_branches) = 2
    /\ \A b \in Range(lg_branches) : Len(lg_commits[b]) = LgMaxCommits
    /\ lg_new[1] # EmptyMap
    /\ lg_new[2] # EmptyMap

\* C40: every call of fetch_graphql_paginated over a finite list of pages
\* comes to its end, returning or raising, and at no point has it spent more
\* than PaginationMaxRetries fetch_graphql_query calls on one page or more
\* than 1 + DefaultRetriesCount requests on one such call.
C40_TerminatesWithinBudget ==
    /\ [](/\ page_calls <= PaginationMaxRetries
          /\ call_requests <= 1 + DefaultRetriesCount)
    /\ <>(pg_pc \in {"returned", "raised"})

\* A call ended on a page after the first with the twentieth query call of
\* the page and the eleventh request of that call.
C40_Witness ==
    /\ pg_pc = "raised"
    /\ Len(requests) >= 2
    /\ page_calls = PaginationMaxRetries
    /\ call_requests = 1 + DefaultRetriesCount
====
